---- MODULE Spec2Model ----
(***************************************************************************)
(* Model of the slot recommender of slotify (backend/ad_inserter):         *)
(* candidate generation (recommend.py, analysis.py), scoring, the          *)
(* boost/cap step of recommend_slots and _select_top.                      *)
(*                                                                         *)
(* Numbers.  Times are integer milliseconds, as in the code.  A normalised *)
(* RMS is segment.rms / 32768 (16-bit samples), so it is kept as the       *)
(* integer segment.rms; a quietness is kept in units of 1/QDen and a score *)
(* in units of 1/ScoreDen, which makes every value the code computes an    *)
(* exact integer here.                                                     *)
(***************************************************************************)
EXTENDS Integers, Sequences, FiniteSets, TLC

VARIABLES
    pc,             \* position in the handler under study
    mode,           \* "podcast" | "song"
    duration_ms,    \* len(audio)
    level,          \* segment.rms of every non-empty window of the recording
    silence_ranges, \* result of detect_silence: sequence of <<start, end>>
    beat_times_ms,  \* SongAnalysis.beat_times_ms
    minima_ms,      \* int(t * 1000) for t in minima_times
    candidates_ms,  \* SongAnalysis.candidates_ms
    candidates,     \* List[Candidate]
    bump,           \* the boost added by recommend_slots (0 when none)
    top_n,
    min_sep_ms,
    selected,       \* result of _select_top
    whisper,        \* whisper_available()
    transcripts,    \* what transcribe_snippet does for each candidate
    raised,         \* the exception that left the handler ("" when none)
    recommendations,\* payload["recommendations"] of recommend_slots
    llm_enabled,    \* provider == "openai" and OPENAI_API_KEY is set
    response,       \* outcome of client.chat.completions.create
    result,         \* SelectionResult of select_best_insertion
    promo_ms,       \* len(promo)
    insert_at_ms,   \* insert_ms argument of insert_with_crossfade
    crossfade_ms,
    duck_db,
    splice,         \* segment lengths computed by insert_with_crossfade
    buffer,         \* the AudioSegment handed to measure_lufs
    lufs,           \* the loudness values computed by mix.py
    pathway,        \* the run: "promo" (cli.run) | "duo" (insert_ad.run), --dry-run
    effects,        \* the processing steps a run has performed, in order
    norm,           \* <<norm_before, norm_after>> of _score_song_candidates
    scores,         \* List[float] returned by _score_song_candidates
    files,          \* the file system: what is at each path
    call,           \* the arguments of services.audio_edit.insert_ad
    insert_time,    \* the local insert_time of insert_ad, in ms
    duration        \* the local duration of insert_ad, in ms

editVars == <<files, call, insert_time, duration>>

auxVars == <<whisper, transcripts, raised, recommendations, llm_enabled,
             response, result, promo_ms, insert_at_ms, crossfade_ms, duck_db,
             splice, buffer, lufs, pathway, effects, norm, scores, editVars>>

vars == <<pc, mode, duration_ms, level, silence_ranges, beat_times_ms,
          minima_ms, candidates_ms, candidates, bump, top_n, min_sep_ms,
          selected, auxVars>>

----------------------------------------------------------------------------
(* Bounds of the model *)

\* longest candidate list handed to _select_top / scored
MaxCands == 3
\* insertion points of the selector inputs: k * SepStep, k in 0..MaxPos
MaxPos == 3
\* score levels of the selector inputs: 0..MaxLevel
MaxLevel == 1
\* longest candidate list scored by recommend_slots
MaxScored == 2
\* most silent intervals detect_silence reports
MaxSilences == 32
\* most energy valleys _rms_minima_times reports
MaxMinima == 3

----------------------------------------------------------------------------
(* Program constants *)

\* Optional[...] = None
None == -1
\* 1 << (8 * sample_width - 1) for 16-bit audio
SampleMax == 32768
\* default min_sep_ms of _select_top
DefaultMinSep == 6000
\* default top_n of recommend_slots
DefaultTopN == 3

\* default crossfade_ms of insert_with_crossfade
DefaultCrossfade == 250
QDen == 2 * SampleMax
ScoreDen == 100 * QDen

\* the variables of the handlers a specification does not exercise
EditIdle ==
    /\ files = <<>>
    /\ call = <<>>
    /\ insert_time = 0
    /\ duration = 0

AuxIdle ==
    /\ EditIdle
    /\ whisper = FALSE
    /\ transcripts = <<>>
    /\ raised = ""
    /\ recommendations = <<>>
    /\ llm_enabled = FALSE
    /\ response = <<>>
    /\ result = <<>>
    /\ promo_ms = 0
    /\ insert_at_ms = 0
    /\ crossfade_ms = 0
    /\ duck_db = 0
    /\ splice = <<>>
    /\ buffer = <<>>
    /\ lufs = <<>>
    /\ pathway = ""
    /\ effects = <<>>
    /\ norm = <<>>
    /\ scores = <<>>

----------------------------------------------------------------------------
(* Helpers *)

Abs(x) == IF x < 0 THEN -x ELSE x
Min(a, b) == IF a < b THEN a ELSE b
Max(a, b) == IF a > b THEN a ELSE b

_clamp(value, min_val, max_val) == Max(min_val, Min(max_val, value))

Range(s) == {s[i] : i \in 1..Len(s)}

\* all sequences without repetition over S of length at most n
RECURSIVE InjSeqs(_, _)
InjSeqs(S, n) ==
    IF n = 0 THEN {<<>>}
    ELSE LET shorter == InjSeqs(S, n - 1)
         IN  shorter \cup
             {Append(e[1], e[2]) :
                e \in {f \in shorter \X S : Len(f[1]) = n - 1 /\ f[2] \notin Range(f[1])}}

Candidate(ins, sil, rb, ra, rc, beat, bnd, notes, score) ==
    [insertion_ms |-> ins, silence_ms |-> sil, rms_before |-> rb,
     rms_after |-> ra, rms_center |-> rc, beat_aligned |-> beat,
     boundary |-> bnd, notes |-> notes, score |-> score]

----------------------------------------------------------------------------
(* sorted(seq, key=...) for the three keys the code sorts by *)

\* key(a) < key(b)
KeyBefore(key, a, b) ==
    CASE key = "rank" ->        \* (-cand.score, cand.insertion_ms)
            \/ a.score > b.score
            \/ a.score = b.score /\ a.insertion_ms < b.insertion_ms
      [] key = "silence_desc" -> \* (cand.silence_ms or 0), reverse=True
            Max(a.silence_ms, 0) > Max(b.silence_ms, 0)
      [] key = "insertion" ->   \* cand.insertion_ms
            a.insertion_ms < b.insertion_ms

\* a stable insertion sort: x goes after every element that is not after it
RECURSIVE InsertSorted(_, _, _)
InsertSorted(sorted, x, key) ==
    IF sorted = <<>> THEN <<x>>
    ELSE IF KeyBefore(key, x, Head(sorted)) THEN <<x>> \o sorted
    ELSE <<Head(sorted)>> \o InsertSorted(Tail(sorted), x, key)

RECURSIVE SortedBy(_, _)
SortedBy(seq, key) ==
    IF seq = <<>> THEN <<>>
    ELSE InsertSorted(SortedBy(SubSeq(seq, 1, Len(seq) - 1), key),
                      seq[Len(seq)], key)

----------------------------------------------------------------------------
(* _select_top *)

\* faulty variant: the distance taken without abs()
Separated_NoAbs(c, sel, min_sep) ==
    \A i \in 1..Len(sel) : c.insertion_ms - sel[i].insertion_ms >= min_sep

Separated(c, sel, min_sep) ==
    \A i \in 1..Len(sel) : Abs(c.insertion_ms - sel[i].insertion_ms) >= min_sep

\* first loop of _select_top
RECURSIVE GreedyPass(_, _, _, _)
GreedyPass(ordered, sel, n, min_sep) ==
    IF ordered = <<>> THEN sel
    ELSE LET c == Head(ordered)
             sel1 == IF Separated(c, sel, min_sep) THEN Append(sel, c) ELSE sel
         IN  IF Len(sel1) >= n THEN sel1
             ELSE GreedyPass(Tail(ordered), sel1, n, min_sep)

\* second loop of _select_top
RECURSIVE Backfill(_, _, _)
Backfill(ordered, sel, n) ==
    IF ordered = <<>> THEN sel
    ELSE LET c == Head(ordered)
             sel1 == IF c \notin Range(sel) THEN Append(sel, c) ELSE sel
         IN  IF Len(sel1) >= n THEN sel1
             ELSE Backfill(Tail(ordered), sel1, n)

_select_top(cands, n, min_sep) ==
    LET ordered == SortedBy(cands, "rank")
        greedy == GreedyPass(ordered, <<>>, n, min_sep)
    IN  IF Len(greedy) < n THEN Backfill(ordered, greedy, n) ELSE greedy

----------------------------------------------------------------------------
(* Scoring: _quietness_from_rms, _score_podcast, _score_song *)

\* rms is segment.rms, i.e. the normalised RMS times SampleMax; the result is
\* the quietness times QDen:  rms/SampleMax * 3.5 = 7 * rms / QDen
\* faulty variant: the factor is 3.0 instead of 3.5
_quietness_from_rms_Factor3(rms) ==
    _clamp(QDen - Min(QDen, 6 * rms), 0, QDen)

_quietness_from_rms(rms) ==
    _clamp(QDen - Min(QDen, 7 * rms), 0, QDen)

\* faulty variant: the silence term weighs 5 instead of 45
PodcastBase_SilenceWeight5(c) ==
    LET silence_ms == IF c.silence_ms = None THEN 0 ELSE c.silence_ms
        silence_score == Min(silence_ms, 1500)          \* times 1500
        quiet_before == _quietness_from_rms(c.rms_before)
        quiet_after == _quietness_from_rms(c.rms_after)
        perQ == ScoreDen \div QDen
    IN  silence_score * ((5 * ScoreDen) \div 1500)
          + 20 * quiet_before * perQ + 10 * quiet_after * perQ
          + (IF c.boundary THEN 12 * ScoreDen ELSE 0)
          - 10 * (QDen - quiet_after) * perQ

\* the score before the proximity penalties, times ScoreDen
PodcastBase(c) ==
    LET silence_ms == IF c.silence_ms = None THEN 0 ELSE c.silence_ms
        silence_score == Min(silence_ms, 1500)          \* times 1500
        quiet_before == _quietness_from_rms(c.rms_before)
        quiet_after == _quietness_from_rms(c.rms_after)
        perQ == ScoreDen \div QDen
    IN  silence_score * ((45 * ScoreDen) \div 1500)
          + 20 * quiet_before * perQ + 10 * quiet_after * perQ
          + (IF c.boundary THEN 12 * ScoreDen ELSE 0)
          - 10 * (QDen - quiet_after) * perQ

PodcastPenalty(c, dur) ==
    (IF c.insertion_ms < 5000 THEN 25 * ScoreDen ELSE 0)
      + (IF dur - c.insertion_ms < 5000 THEN 25 * ScoreDen ELSE 0)

_score_podcast(c, dur) ==
    _clamp(PodcastBase(c) - PodcastPenalty(c, dur), 0, 100 * ScoreDen)

\* faulty variant: beat alignment weighs 50 instead of 40
SongBase_Beat50(c) ==
    LET quiet_before == _quietness_from_rms(c.rms_before)
        quiet_after == _quietness_from_rms(c.rms_after)
        valley == _quietness_from_rms(IF c.rms_center = None THEN 0 ELSE c.rms_center)
        perQ == ScoreDen \div QDen
    IN  (IF c.beat_aligned THEN 50 * ScoreDen ELSE 0)
          + 30 * valley * perQ + 15 * quiet_before * perQ + 10 * quiet_after * perQ

SongBase(c) ==
    LET quiet_before == _quietness_from_rms(c.rms_before)
        quiet_after == _quietness_from_rms(c.rms_after)
        valley == _quietness_from_rms(IF c.rms_center = None THEN 0 ELSE c.rms_center)
        perQ == ScoreDen \div QDen
    IN  (IF c.beat_aligned THEN 40 * ScoreDen ELSE 0)
          + 30 * valley * perQ + 15 * quiet_before * perQ + 10 * quiet_after * perQ

SongPenalty(c, dur) ==
    (IF c.insertion_ms < 5000 THEN 20 * ScoreDen ELSE 0)
      + (IF dur - c.insertion_ms < 5000 THEN 20 * ScoreDen ELSE 0)

_score_song(c, dur) ==
    _clamp(SongBase(c) - SongPenalty(c, dur), 0, 100 * ScoreDen)

\* the scoring loops of recommend_slots
ScoreAll(m, cands, dur) ==
    [i \in 1..Len(cands) |->
        [cands[i] EXCEPT !.score =
            IF m = "song" THEN _score_song(cands[i], dur)
            ELSE _score_podcast(cands[i], dur)]]

MaxScore(cands) ==
    CHOOSE s \in {cands[i].score : i \in 1..Len(cands)} :
        \A i \in 1..Len(cands) : cands[i].score <= s

\* bump = 65.0 - max_score, when max_score < 65.0
BumpFor(cands) ==
    IF cands # <<>> /\ MaxScore(cands) < 65 * ScoreDen
    THEN 65 * ScoreDen - MaxScore(cands) ELSE 0

\* faulty variant: the boost lifts the best score to 60 only
BoostCap_To60(cands) ==
    LET max_score == MaxScore(cands)
        boosted == IF max_score < 65 * ScoreDen
                   THEN [i \in 1..Len(cands) |->
                           [cands[i] EXCEPT !.score =
                               _clamp(@ + (60 * ScoreDen - max_score), 0, 100 * ScoreDen)]]
                   ELSE cands
    IN  IF cands = <<>> THEN cands
        ELSE [i \in 1..Len(boosted) |->
                [boosted[i] EXCEPT !.score = Min(@, 95 * ScoreDen)]]

\* faulty variant: the cap is put at the boost target, 65, instead of 95
BoostCap_Cap65(cands) ==
    LET max_score == MaxScore(cands)
        boosted == IF max_score < 65 * ScoreDen
                   THEN [i \in 1..Len(cands) |->
                           [cands[i] EXCEPT !.score =
                               _clamp(@ + (65 * ScoreDen - max_score), 0, 100 * ScoreDen)]]
                   ELSE cands
    IN  IF cands = <<>> THEN cands
        ELSE [i \in 1..Len(boosted) |->
                [boosted[i] EXCEPT !.score = Min(@, 65 * ScoreDen)]]

\* the boost/cap step of recommend_slots
BoostCap(cands) ==
    LET max_score == MaxScore(cands)
        boosted == IF max_score < 65 * ScoreDen
                   THEN [i \in 1..Len(cands) |->
                           [cands[i] EXCEPT !.score =
                               _clamp(@ + (65 * ScoreDen - max_score), 0, 100 * ScoreDen)]]
                   ELSE cands
    IN  IF cands = <<>> THEN cands
        ELSE [i \in 1..Len(boosted) |->
                [boosted[i] EXCEPT !.score = Min(@, 95 * ScoreDen)]]

\* int(round(score)): Python rounds halves to the even integer
seamlessness_percent(score) ==
    LET whole == score \div ScoreDen
        rest == score % ScoreDen
    IN  IF 2 * rest < ScoreDen THEN whole
        ELSE IF 2 * rest > ScoreDen THEN whole + 1
        ELSE IF whole % 2 = 0 THEN whole ELSE whole + 1

----------------------------------------------------------------------------
(* Specification SpecSelect: _select_top on bounded candidate lists *)

SepStep == DefaultMinSep \div 2

SelPositions == {k * SepStep : k \in 0..MaxPos}

SelInputs ==
    UNION {{[i \in 1..Len(p) |->
               Candidate(p[i], 0, 0, 0, None, FALSE, FALSE, "silence", s[i] * ScoreDen)]
            : s \in [1..Len(p) -> 0..MaxLevel]}
           : p \in InjSeqs(SelPositions, MaxCands)}

InitSelect ==
    /\ pc = "select"
    /\ mode = "podcast"
    /\ duration_ms = MaxPos * SepStep + DefaultMinSep
    /\ level = 0
    /\ silence_ranges = <<>>
    /\ beat_times_ms = <<>>
    /\ minima_ms = <<>>
    /\ candidates_ms = <<>>
    /\ candidates \in SelInputs
    /\ bump = 0
    /\ top_n \in 0..MaxCands
    /\ min_sep_ms \in {0, DefaultMinSep}
    /\ selected = <<>>
    /\ AuxIdle

SelectTop ==
    /\ pc = "select"
    /\ selected' = _select_top(candidates, top_n, min_sep_ms)
    /\ pc' = "done"
    /\ UNCHANGED <<mode, duration_ms, level, silence_ranges, beat_times_ms,
                   minima_ms, candidates_ms, candidates, bump, top_n, min_sep_ms,
                   auxVars>>

NextSelect == SelectTop

SpecSelect == InitSelect /\ [][NextSelect]_vars

----------------------------------------------------------------------------
(* Candidate generation: _fallback_candidates, _podcast_candidates,          *)
(* analyze_song, _song_candidates                                            *)

\* audio[start_ms:end_ms] after the clamps of _rms_window; slicing clips the
\* range to the recording.  The recording is taken to have one loudness:
\* every non-empty window has segment.rms = lvl, an empty one has RMS 0.
_rms_window(dur, lvl, start_ms, end_ms) ==
    LET s == Max(0, start_ms)
        e == Max(s, end_ms)
        seg_len == Max(0, Min(e, dur) - Min(s, dur))
    IN  IF seg_len = 0 THEN 0 ELSE lvl

\* the range <<start_ms, end_ms>> _rms_window slices the recording with
_rms_window_range(start_ms, end_ms) ==
    LET s == Max(0, start_ms)
        e == Max(s, end_ms)
    IN  <<s, e>>

\* int(round(p)) for the i-th of count points of np.linspace(start, end):
\* p = start + i * (end - start) / (count - 1), never half-way for count = 12
LinspacePoint(start, end, count, i) ==
    start + (2 * i * (end - start) + (count - 1)) \div (2 * (count - 1))

\* faulty variant: an empty recording gets no fallback point
_fallback_candidates_NoneWhenEmpty(dur, count) ==
    IF dur <= 0 THEN <<>>
    ELSE LET start == (dur * 15) \div 100
             end == (dur * 85) \div 100
         IN  IF end <= start THEN <<dur \div 2>>
             ELSE [k \in 1..count |-> LinspacePoint(start, end, count, k - 1)]

\* int(dur * 0.15) and int(dur * 0.85) truncate
_fallback_candidates(dur, count) ==
    IF dur <= 0 THEN <<0>>
    ELSE LET start == (dur * 15) \div 100
             end == (dur * 85) \div 100
         IN  IF end <= start THEN <<dur \div 2>>
             ELSE [k \in 1..count |-> LinspacePoint(start, end, count, k - 1)]

FallbackCandidate(m, dur, lvl, insert_ms) ==
    Candidate(insert_ms,
              IF m = "song" THEN None ELSE 0,
              _rms_window(dur, lvl, insert_ms - 800, insert_ms),
              _rms_window(dur, lvl, insert_ms, insert_ms + 800),
              IF m = "song" THEN _rms_window(dur, lvl, insert_ms - 200, insert_ms + 200)
              ELSE None,
              FALSE, FALSE, "fallback", 0)

\* faulty variant: a fallback point is appended also when a candidate is already there
RECURSIVE PadLoop_NoSkip(_, _, _, _, _, _)
PadLoop_NoSkip(cands, existing, points, m, dur, lvl) ==
    IF points = <<>> THEN cands
    ELSE LET insert_ms == Head(points)
             cands1 == Append(cands, FallbackCandidate(m, dur, lvl, insert_ms))
         IN  IF Len(cands1) >= 12 THEN cands1
             ELSE PadLoop_NoSkip(cands1, existing \cup {insert_ms}, Tail(points),
                                 m, dur, lvl)

\* the loop over _fallback_candidates(len(audio)) of both generators
RECURSIVE PadLoop(_, _, _, _, _, _)
PadLoop(cands, existing, points, m, dur, lvl) ==
    IF points = <<>> THEN cands
    ELSE LET insert_ms == Head(points)
         IN  IF insert_ms \in existing
             THEN PadLoop(cands, existing, Tail(points), m, dur, lvl)
             ELSE LET cands1 == Append(cands, FallbackCandidate(m, dur, lvl, insert_ms))
                  IN  IF Len(cands1) >= 12 THEN cands1
                      ELSE PadLoop(cands1, existing \cup {insert_ms}, Tail(points),
                                   m, dur, lvl)

\* if len(candidates) < 10: ...
Pad(cands, m, dur, lvl) ==
    IF Len(cands) < 10
    THEN PadLoop(cands, {cands[i].insertion_ms : i \in 1..Len(cands)},
                 _fallback_candidates(dur, 12), m, dur, lvl)
    ELSE cands

\* faulty variant: the first 30 in time are kept, as in _song_candidates
TruncatePodcast_First30(cands) ==
    IF Len(cands) > 30 THEN SubSeq(cands, 1, 30) ELSE cands

\* if len(candidates) > 30: keep the 30 longest silences, then sort by time
TruncatePodcast(cands) ==
    IF Len(cands) > 30
    THEN SortedBy(SubSeq(SortedBy(cands, "silence_desc"), 1, 30), "insertion")
    ELSE cands

_podcast_candidates(ranges, dur, lvl) ==
    LET detected ==
            [i \in 1..Len(ranges) |->
                LET start_ms == ranges[i][1]
                    end_ms == ranges[i][2]
                    insert_ms == (start_ms + end_ms) \div 2
                IN  Candidate(insert_ms, Max(0, end_ms - start_ms),
                              _rms_window(dur, lvl, insert_ms - 800, insert_ms),
                              _rms_window(dur, lvl, insert_ms, insert_ms + 800),
                              None, FALSE, FALSE, "silence", 0)]
    IN  TruncatePodcast(Pad(detected, "podcast", dur, lvl))

\* faulty variant: a valley snaps to the last beat at or before it
Nearest_Previous(beats, t_ms) ==
    LET before == {i \in 1..Len(beats) : beats[i] <= t_ms}
    IN  IF before = {} THEN beats[1]
        ELSE beats[CHOOSE i \in before : \A j \in before : j <= i]

\* min(beat_times_ms, key=lambda b: abs(b - t_ms)): the first minimal element
Nearest(beats, t_ms) ==
    beats[CHOOSE i \in 1..Len(beats) :
            /\ \A j \in 1..Len(beats) : Abs(beats[i] - t_ms) <= Abs(beats[j] - t_ms)
            /\ \A j \in 1..(i - 1) : Abs(beats[j] - t_ms) > Abs(beats[i] - t_ms)]

\* faulty variant: a valley is taken as it is, not moved to a beat
RECURSIVE SnapLoop_NoSnap(_, _, _, _)
SnapLoop_NoSnap(minima, beats, acc, seen) ==
    IF minima = <<>> THEN acc
    ELSE LET time == Head(minima)
         IN  IF time \notin seen
             THEN SnapLoop_NoSnap(Tail(minima), beats, Append(acc, time), seen \cup {time})
             ELSE SnapLoop_NoSnap(Tail(minima), beats, acc, seen)

\* the loop over minima_times of analyze_song; seen is the set of times taken
RECURSIVE SnapLoop(_, _, _, _)
SnapLoop(minima, beats, acc, seen) ==
    IF minima = <<>> THEN acc
    ELSE LET t_ms == Head(minima)
             time == IF beats # <<>> THEN Nearest(beats, t_ms) ELSE t_ms
         IN  IF time \notin seen
             THEN SnapLoop(Tail(minima), beats, Append(acc, time), seen \cup {time})
             ELSE SnapLoop(Tail(minima), beats, acc, seen)

\* SongAnalysis.candidates_ms; an empty recording (y.size = 0) gives none
analyze_song(dur, minima, beats) ==
    IF dur = 0 THEN <<>> ELSE SnapLoop(minima, beats, <<>>, {})

_song_candidates(cand_ms, beats, dur, lvl) ==
    LET times == IF cand_ms # <<>> THEN cand_ms ELSE _fallback_candidates(dur, 12)
        detected ==
            [i \in 1..Len(times) |->
                LET insert_ms == times[i]
                    beat_aligned ==
                        /\ beats # <<>>
                        /\ \E j \in 1..Len(beats) : Abs(insert_ms - beats[j]) <= 80
                IN  Candidate(insert_ms, None,
                              _rms_window(dur, lvl, insert_ms - 800, insert_ms),
                              _rms_window(dur, lvl, insert_ms, insert_ms + 800),
                              _rms_window(dur, lvl, insert_ms - 200, insert_ms + 200),
                              beat_aligned, FALSE,
                              IF beat_aligned THEN "beat" ELSE "energy", 0)]
        padded == Pad(detected, "song", dur, lvl)
    IN  IF Len(padded) > 30 THEN SubSeq(padded, 1, 30) ELSE padded

----------------------------------------------------------------------------
(* Specification Spec: recommend_slots from the detector outputs to the      *)
(* selected slots, for bounded detector outputs                              *)

GenDurations == {0, 1, 10, 120000}

GenLevels == {0, 3000}

\* n silent intervals, 3000 ms apart, 600..1000 ms long (detect_silence
\* reports disjoint ascending intervals of at least 500 ms)
SilenceFamily(n, first, mult) ==
    [i \in 1..n |->
        LET start_ms == first + (i - 1) * 3000
        IN  <<start_ms, start_ms + 1000 - 100 * (((i - 1) * mult) % 5)>>]

SilenceInputs(dur) ==
    {SilenceFamily(n, first, mult) :
        n \in {k \in 0..MaxSilences : k = 0 \/ 17500 + (k - 1) * 3000 + 1000 <= dur},
        first \in {2000, 17500}, mult \in {0, 1, 3}}

BeatInputs(dur) ==
    IF dur < 2000 THEN {<<>>}
    ELSE {<<>>, <<1000, 1500, 2000>>, <<1000, 2000>>}

MinimaTimes == {0, 1250, 1480, 1500, 1750, 2600}

\* a non-empty signal has at least one valley; the valleys are distinct frames
MinimaInputs(dur) ==
    IF dur = 0 THEN {<<>>}
    ELSE IF dur < 2600 THEN {<<0>>}
    ELSE InjSeqs(MinimaTimes, MaxMinima) \ {<<>>}

Init ==
    /\ mode \in {"podcast", "song"}
    /\ pc = IF mode = "song" THEN "analyze" ELSE "generate"
    /\ duration_ms \in GenDurations
    /\ level \in GenLevels
    /\ silence_ranges \in IF mode = "podcast" THEN SilenceInputs(duration_ms) ELSE {<<>>}
    /\ beat_times_ms \in IF mode = "song" THEN BeatInputs(duration_ms) ELSE {<<>>}
    /\ minima_ms \in IF mode = "song" THEN MinimaInputs(duration_ms) ELSE {<<>>}
    /\ candidates_ms = <<>>
    /\ candidates = <<>>
    /\ bump = 0
    /\ top_n = DefaultTopN
    /\ min_sep_ms = DefaultMinSep
    /\ selected = <<>>
    /\ AuxIdle

AnalyzeSong ==
    /\ pc = "analyze"
    /\ candidates_ms' = analyze_song(duration_ms, minima_ms, beat_times_ms)
    /\ pc' = "generate"
    /\ UNCHANGED <<mode, duration_ms, level, silence_ranges, beat_times_ms,
                   minima_ms, candidates, bump, top_n, min_sep_ms, selected,
                   auxVars>>

SongCandidates ==
    /\ pc = "generate"
    /\ mode = "song"
    /\ candidates' = _song_candidates(candidates_ms, beat_times_ms, duration_ms, level)
    /\ pc' = "score"
    /\ UNCHANGED <<mode, duration_ms, level, silence_ranges, beat_times_ms,
                   minima_ms, candidates_ms, bump, top_n, min_sep_ms, selected,
                   auxVars>>

PodcastCandidates ==
    /\ pc = "generate"
    /\ mode = "podcast"
    /\ candidates' = _podcast_candidates(silence_ranges, duration_ms, level)
    /\ pc' = "score"
    /\ UNCHANGED <<mode, duration_ms, level, silence_ranges, beat_times_ms,
                   minima_ms, candidates_ms, bump, top_n, min_sep_ms, selected,
                   auxVars>>

----------------------------------------------------------------------------
(* Specification SpecRecommend: the scoring, boost/cap and selection steps of *)
(* recommend_slots on bounded candidate lists with bounded features           *)

RecDurations == {8000, 120000}

\* near the start, the middle (near both ends of a short recording), near the end
RecPositions(dur) == {2000, dur \div 2, dur - 1500}

SilenceValues == {0, 900, 2000}

\* <<rms_before, rms_after>> as segment.rms: silent, moderate, loud
RmsPairs == {<<0, 0>>, <<4681, 2000>>, <<9363, 12000>>}

RmsCenters == {0, 4000, 9363}

RecProfiles(m) ==
    IF m = "song"
    THEN {Candidate(0, None, r[1], r[2], rc, b, FALSE, IF b THEN "beat" ELSE "energy", 0)
          : r \in RmsPairs, rc \in RmsCenters, b \in BOOLEAN}
    ELSE {Candidate(0, s, r[1], r[2], None, FALSE, b, IF s > 0 THEN "silence" ELSE "fallback", 0)
          : s \in SilenceValues, r \in RmsPairs, b \in BOOLEAN}

\* the elements of a set of integers in ascending order
RECURSIVE Ascending(_)
Ascending(S) ==
    IF S = {} THEN <<>>
    ELSE LET least == CHOOSE x \in S : \A y \in S : x <= y
         IN  <<least>> \o Ascending(S \ {least})

RecInputs(m, dur) ==
    UNION {{[i \in 1..Len(p) |-> [f[i] EXCEPT !.insertion_ms = p[i]]]
            : f \in [1..Len(p) -> RecProfiles(m)]}
           : p \in {Ascending(T) : T \in {U \in SUBSET RecPositions(dur) :
                                              Cardinality(U) <= MaxScored}}}

InitRecommend ==
    /\ pc = "score"
    /\ mode \in {"podcast", "song"}
    /\ duration_ms \in RecDurations
    /\ level = 0
    /\ silence_ranges = <<>>
    /\ beat_times_ms = <<>>
    /\ minima_ms = <<>>
    /\ candidates_ms = <<>>
    /\ candidates \in RecInputs(mode, duration_ms)
    /\ bump = 0
    /\ top_n = DefaultTopN
    /\ min_sep_ms = DefaultMinSep
    /\ selected = <<>>
    /\ AuxIdle

ScoreCandidates ==
    /\ pc = "score"
    /\ candidates' = ScoreAll(mode, candidates, duration_ms)
    /\ pc' = "boost"
    /\ UNCHANGED <<mode, duration_ms, level, silence_ranges, beat_times_ms,
                   minima_ms, candidates_ms, bump, top_n, min_sep_ms, selected,
                   auxVars>>

BoostAndCap ==
    /\ pc = "boost"
    /\ bump' = BumpFor(candidates)
    /\ candidates' = BoostCap(candidates)
    /\ pc' = "select"
    /\ UNCHANGED <<mode, duration_ms, level, silence_ranges, beat_times_ms,
                   minima_ms, candidates_ms, top_n, min_sep_ms, selected,
                   auxVars>>

NextRecommend == ScoreCandidates \/ BoostAndCap \/ SelectTop

SpecRecommend == InitRecommend /\ [][NextRecommend]_vars

Next ==
    \/ AnalyzeSong
    \/ SongCandidates
    \/ PodcastCandidates
    \/ ScoreCandidates
    \/ BoostAndCap
    \/ SelectTop

Spec == Init /\ [][Next]_vars

----------------------------------------------------------------------------
(* Claims about _select_top, checked under SpecSelect *)

OutRanks(a, b) ==
    \/ a.score > b.score
    \/ a.score = b.score /\ a.insertion_ms < b.insertion_ms

PairwiseApart(sel, min_sep) ==
    \A i, j \in 1..Len(sel) :
        i # j => Abs(sel[i].insertion_ms - sel[j].insertion_ms) >= min_sep

\* some n of the candidates are pairwise at least min_sep apart
HasSeparatedSet(cands, n, min_sep) ==
    \E S \in SUBSET (1..Len(cands)) :
        /\ Cardinality(S) = n
        /\ \A i, j \in S :
              i # j => Abs(cands[i].insertion_ms - cands[j].insertion_ms) >= min_sep

\* candidate i is at least min_sep from every better-ranked candidate that is
\* itself accepted in this sense (acceptance in rank order)
RECURSIVE AcceptedInRankOrder(_, _, _)
AcceptedInRankOrder(cands, i, min_sep) ==
    \A j \in 1..Len(cands) :
        (OutRanks(cands[j], cands[i]) /\ AcceptedInRankOrder(cands, j, min_sep))
            => Abs(cands[i].insertion_ms - cands[j].insertion_ms) >= min_sep

NumAccepted(cands, min_sep) ==
    Cardinality({i \in 1..Len(cands) : AcceptedInRankOrder(cands, i, min_sep)})

\* C1 (as stated): whenever some top_n candidates are pairwise min_sep_ms
\* apart, every two returned candidates are at least min_sep_ms apart.
C1_SeparatedWheneverPossible ==
    (pc = "done" /\ top_n >= 1 /\ HasSeparatedSet(candidates, top_n, min_sep_ms))
        => PairwiseApart(selected, min_sep_ms)

\* C1 (amended): whenever taking the candidates in rank order and accepting
\* each one that is min_sep_ms from all accepted before it accepts top_n of
\* them, every two returned candidates are at least min_sep_ms apart.
C1_SeparatedWhenGreedySucceeds ==
    (pc = "done" /\ top_n >= 1 /\ NumAccepted(candidates, min_sep_ms) >= top_n)
        => PairwiseApart(selected, min_sep_ms)

C1_Witness ==
    /\ pc = "done"
    /\ top_n >= 2
    /\ min_sep_ms > 0
    /\ Len(candidates) > top_n
    /\ ~PairwiseApart(candidates, min_sep_ms)
    /\ NumAccepted(candidates, min_sep_ms) >= top_n
    /\ Len(selected) = top_n
    /\ PairwiseApart(selected, min_sep_ms)

\* C2 (as stated): the returned list has at most top_n candidates, also for
\* top_n = 0, and holds no candidate twice.
C2_AtMostTopN ==
    pc = "done" =>
        /\ Len(selected) <= top_n
        /\ \A i, j \in 1..Len(selected) : i # j => selected[i] # selected[j]

\* C3 (as stated): the returned list is in rank order (score descending,
\* equal scores by ascending insertion_ms), also after a backfill.
C3_RankOrdered ==
    pc = "done" =>
        \A i, j \in 1..Len(selected) :
            i < j => ~OutRanks(selected[j], selected[i])

----------------------------------------------------------------------------
(* Claims about scoring and the boost/cap step, checked under SpecRecommend *)

ScoresWithin(cands, lo, hi) ==
    \A i \in 1..Len(cands) :
        lo * ScoreDen <= cands[i].score /\ cands[i].score <= hi * ScoreDen

\* C4: every raw score is in [0,100]; after the boost/cap step every score
\* is in [0,95] and the best score is in [65,95], so the best slot reports a
\* seamlessness_percent between 65 and 95.
C4_ScoreRanges ==
    /\ pc = "boost" => ScoresWithin(candidates, 0, 100)
    /\ (pc \in {"select", "done"} /\ candidates # <<>>) =>
          /\ ScoresWithin(candidates, 0, 95)
          /\ \E i \in 1..Len(candidates) : candidates[i].score >= 65 * ScoreDen
    /\ (pc = "done" /\ selected # <<>>) =>
          /\ \A i \in 1..Len(candidates) : candidates[i].score <= selected[1].score
          /\ seamlessness_percent(selected[1].score) \in 65..95

C4_Witness ==
    /\ pc = "done"
    /\ bump > 0
    /\ Len(candidates) >= 2
    /\ selected # <<>>
    /\ selected[1].score = 65 * ScoreDen
    /\ \E i \in 1..Len(candidates) : candidates[i].score < 65 * ScoreDen

InsertionTimes(sel) == [i \in 1..Len(sel) |-> sel[i].insertion_ms]

\* C5: the boost/cap step keeps the relative order of the scores (greater
\* stays greater, equal stays equal), so _select_top picks the same
\* candidates in the same order as it would on the raw scores.
C5_BoostKeepsOrder ==
    [][(pc = "boost" /\ pc' = "select") =>
          /\ \A a, b \in 1..Len(candidates) :
                /\ candidates[a].score > candidates[b].score
                      => candidates'[a].score > candidates'[b].score
                /\ candidates[a].score = candidates[b].score
                      => candidates'[a].score = candidates'[b].score
          /\ InsertionTimes(_select_top(candidates', top_n, min_sep_ms))
                = InsertionTimes(_select_top(candidates, top_n, min_sep_ms))]_vars

C5_Witness ==
    /\ pc = "select"
    /\ bump > 0
    /\ \E a, b \in 1..Len(candidates) :
          /\ candidates[a].score > candidates[b].score
          /\ candidates[a].insertion_ms > candidates[b].insertion_ms

\* C6 (as stated): the proximity penalty taken off before clamping is exactly
\* 25 (spoken-word) or 20 (music) when the candidate is within 5000 ms of the
\* start or of the end, also when it is within 5000 ms of both, and 0 otherwise.
C6_PenaltyOnce ==
    pc = "boost" =>
        \A i \in 1..Len(candidates) :
            LET c == candidates[i]
                near == c.insertion_ms < 5000 \/ duration_ms - c.insertion_ms < 5000
                amount == IF mode = "song" THEN 20 ELSE 25
                base == IF mode = "song" THEN SongBase(c) ELSE PodcastBase(c)
            IN  c.score = _clamp(base - (IF near THEN amount * ScoreDen ELSE 0),
                                 0, 100 * ScoreDen)

\* the rms values scoring reads from a candidate
RmsOf(c) ==
    {c.rms_before, c.rms_after} \cup (IF c.rms_center = None THEN {} ELSE {c.rms_center})

ScoredRms == UNION {RmsOf(candidates[i]) : i \in 1..Len(candidates)}

\* C21: for every rms r >= 0 that scoring reads, _quietness_from_rms(r) is in
\* [0,1]; it is non-increasing in r; it is 1 at r = 0 and 0 for every
\* r >= 1/3.5 (r = rms/SampleMax, so r >= 1/3.5 is 7 * rms >= QDen).
C21_Quietness ==
    pc = "boost" =>
        \A r1 \in ScoredRms :
            /\ 0 <= _quietness_from_rms(r1) /\ _quietness_from_rms(r1) <= QDen
            /\ r1 = 0 => _quietness_from_rms(r1) = QDen
            /\ 7 * r1 >= QDen => _quietness_from_rms(r1) = 0
            /\ \A r2 \in ScoredRms :
                  r1 <= r2 => _quietness_from_rms(r1) >= _quietness_from_rms(r2)

\* a scored list with a silent window, a window of intermediate level and a
\* window just above 1/3.5
C21_Witness ==
    /\ pc = "boost"
    /\ 0 \in ScoredRms
    /\ \E r \in ScoredRms :
          0 < _quietness_from_rms(r) /\ _quietness_from_rms(r) < QDen
    /\ \E r \in ScoredRms : 7 * r >= QDen /\ 7 * (r - 1) < QDen

\* C28: no raw spoken-word score exceeds 87 and no raw music score exceeds
\* 95; after a boost no score exceeds 65; hence the cap at 95 in
\* recommend_slots never lowers a score: the scores it leaves are the raw
\* scores with the boost added.
C28_CapNeverLowers ==
    /\ [](pc = "boost" =>
            ScoresWithin(candidates, 0, IF mode = "song" THEN 95 ELSE 87))
    /\ []((pc \in {"select", "done"} /\ bump > 0) => ScoresWithin(candidates, 0, 65))
    /\ [][(pc = "boost" /\ pc' = "select") =>
            \A i \in 1..Len(candidates) :
                candidates'[i].score
                    = _clamp(candidates[i].score + bump', 0, 100 * ScoreDen)]_vars

\* a beat-aligned point in full silence, far from both ends: the raw music
\* score is 95, the greatest there is
C28_Witness ==
    /\ pc = "select"
    /\ mode = "song"
    /\ bump = 0
    /\ \E i \in 1..Len(candidates) :
          /\ candidates[i].score = 95 * ScoreDen
          /\ candidates[i].score = SongBase(candidates[i])

----------------------------------------------------------------------------
(* Claims about candidate generation, checked under Spec *)

Generated == pc \in {"score", "boost", "select", "done"}

Times(cands) == {cands[i].insertion_ms : i \in 1..Len(cands)}

\* C7: the generator returns at least one candidate, and for an empty
\* recording exactly one, at 0 ms with rms_before = rms_after = 0.
C7_AtLeastOneCandidate ==
    Generated =>
        /\ Len(candidates) >= 1
        /\ duration_ms = 0 =>
              /\ Len(candidates) = 1
              /\ candidates[1].insertion_ms = 0
              /\ candidates[1].rms_before = 0
              /\ candidates[1].rms_after = 0

C7_Witness ==
    /\ pc = "score"
    /\ mode = "song"
    /\ duration_ms = 0
    /\ level > 0
    /\ Len(candidates) = 1

\* what detection yields, before padding (in song mode an empty analysis is
\* replaced by the fallback points before the candidates are built)
DetectedTimes ==
    IF mode = "song"
    THEN (IF candidates_ms # <<>> THEN candidates_ms
          ELSE _fallback_candidates(duration_ms, 12))
    ELSE [i \in 1..Len(silence_ranges) |->
            (silence_ranges[i][1] + silence_ranges[i][2]) \div 2]

\* the 12 fallback points: evenly spaced from 15% to 85% of the duration,
\* in whole milliseconds
FallbackTimes == Range(_fallback_candidates(duration_ms, 12))

C9_AtMostThirty ==
    Generated =>
        /\ Len(candidates) <= 30
        /\ (mode = "podcast" /\ Len(silence_ranges) > 30) =>
              LET silence(i) == silence_ranges[i][2] - silence_ranges[i][1]
                  kept == {i \in 1..Len(silence_ranges) :
                              DetectedTimes[i] \in Times(candidates)}
              IN  /\ Len(candidates) = 30
                  /\ Cardinality(kept) = 30
                  /\ \A i \in 1..Len(candidates) :
                        \E k \in kept :
                            /\ candidates[i].insertion_ms = DetectedTimes[k]
                            /\ candidates[i].silence_ms = silence(k)
                  /\ \A k \in kept : \A d \in (1..Len(silence_ranges)) \ kept :
                        silence(k) >= silence(d)
                  /\ \A i \in 1..(Len(candidates) - 1) :
                        candidates[i].insertion_ms < candidates[i + 1].insertion_ms

\* a longer silence after the 30th is kept, a shorter earlier one dropped
C9_Witness ==
    /\ pc = "score"
    /\ mode = "podcast"
    /\ Len(silence_ranges) > 30
    /\ Len(candidates) = 30
    /\ DetectedTimes[Len(silence_ranges)] \in Times(candidates)
    /\ \E i \in 1..30 : DetectedTimes[i] \notin Times(candidates)

IsNearestBeat(b, t_ms) ==
    /\ b \in Range(beat_times_ms)
    /\ \A b2 \in Range(beat_times_ms) : Abs(b - t_ms) <= Abs(b2 - t_ms)

\* the times cand stand, in order, for valleys of increasing index, each a
\* beat nearest to its valley, and every valley has its beat no later in cand
\* than the time standing for it or an earlier valley
InFirstOccurrenceOrder(cand, minima) ==
    \E f \in [1..Len(cand) -> 1..Len(minima)] :
        /\ \A k \in 1..Len(cand) : IsNearestBeat(cand[k], minima[f[k]])
        /\ \A k, l \in 1..Len(cand) : k < l => f[k] < f[l]
        /\ \A i \in 1..Len(minima) :
              \E k \in 1..Len(cand) : f[k] <= i /\ IsNearestBeat(cand[k], minima[i])

\* C10: with at least one beat, every valley is replaced by a beat nearest to
\* it (1480 with beats 1000, 1500, 2000 gives 1500), no time occurs twice,
\* and the times are in the order in which their valleys first occurred.
C10_SnapToNearestBeat ==
    (pc \in {"generate", "score"} /\ mode = "song" /\ beat_times_ms # <<>>) =>
        /\ \A k \in 1..Len(candidates_ms) : candidates_ms[k] \in Range(beat_times_ms)
        /\ \A k, l \in 1..Len(candidates_ms) :
              k # l => candidates_ms[k] # candidates_ms[l]
        /\ InFirstOccurrenceOrder(candidates_ms, minima_ms)
        /\ (beat_times_ms = <<1000, 1500, 2000>> /\ 1480 \in Range(minima_ms))
              => /\ 1500 \in Range(candidates_ms)
                 /\ (minima_ms[1] = 1480 => candidates_ms[1] = 1500)

C10_Witness ==
    /\ pc = "generate"
    /\ beat_times_ms = <<1000, 1500, 2000>>
    /\ minima_ms = <<1480, 1500, 1250>>
    /\ candidates_ms = <<1500, 1000>>

\* C29: in music mode, when analyze_song reports at least one beat, every
\* candidate time it produces is a beat time; so every candidate of
\* _song_candidates that is not fallback padding has beat_aligned = true and
\* notes = "beat", only padding has beat_aligned = false, and the
\* beat-alignment term of _score_song is the same for all detected candidates.
C29_DetectedAreBeats ==
    (mode = "song" /\ beat_times_ms # <<>>) =>
        /\ pc # "analyze" => Range(candidates_ms) \subseteq Range(beat_times_ms)
        /\ Generated =>
              /\ \A i \in 1..Len(candidates) :
                    /\ candidates[i].notes # "fallback" =>
                          /\ candidates[i].beat_aligned
                          /\ candidates[i].notes = "beat"
                          /\ candidates[i].insertion_ms \in Range(beat_times_ms)
                    /\ ~candidates[i].beat_aligned => candidates[i].notes = "fallback"
              /\ \A i, j \in 1..Len(candidates) :
                    (candidates[i].notes # "fallback" /\ candidates[j].notes # "fallback")
                        => candidates[i].beat_aligned = candidates[j].beat_aligned

\* valleys off the beat were moved to beats, and padding was added
C29_Witness ==
    /\ mode = "song" /\ pc = "score"
    /\ beat_times_ms # <<>>
    /\ \E k \in 1..Len(minima_ms) : minima_ms[k] \notin Range(beat_times_ms)
    /\ Len(candidates_ms) >= 2
    /\ \E i \in 1..Len(candidates) : candidates[i].notes = "beat"
    /\ \E i \in 1..Len(candidates) :
          candidates[i].notes = "fallback" /\ ~candidates[i].beat_aligned

----------------------------------------------------------------------------
(* The alternate scoring path of llm.py.  A candidate is the dict of the    *)
(* prompt payload.  An rms value is kept as the integer segment.rms, as     *)
(* above.  _normalize returns fractions of one denominator, NormDen; a song *)
(* score is kept in units of 1/SongScale, a spoken-word score in units of   *)
(* 1/PodScale.                                                              *)

\* most candidates in a prompt payload
MaxPayload == 2

PayloadCandidate(ins, sil, rb, ra, beat, before, after) ==
    [insertion_ms |-> ins, silence_ms |-> sil, rms_before |-> rb,
     rms_after |-> ra, beat_aligned |-> beat,
     transcript_before |-> before, transcript_after |-> after]

RECURSIVE SeqMin(_)
SeqMin(values) ==
    IF Len(values) = 1 THEN values[1] ELSE Min(values[1], SeqMin(Tail(values)))

RECURSIVE SeqMax(_)
SeqMax(values) ==
    IF Len(values) = 1 THEN values[1] ELSE Max(values[1], SeqMax(Tail(values)))

\* the denominator of the fractions _normalize returns: max_val - min_val
NormDen(values) ==
    IF values = <<>> \/ SeqMax(values) = SeqMin(values) THEN 1
    ELSE SeqMax(values) - SeqMin(values)

\* faulty variant: scales upwards from the minimum
_normalize_FromMin(values) ==
    IF values = <<>> THEN <<>>
    ELSE IF SeqMax(values) = SeqMin(values) THEN [i \in 1..Len(values) |-> 0]
    ELSE [i \in 1..Len(values) |-> values[i] - SeqMin(values)]

\* the numerators of (max_val - val) / (max_val - min_val)
_normalize(values) ==
    IF values = <<>> THEN <<>>
    ELSE IF SeqMax(values) = SeqMin(values) THEN [i \in 1..Len(values) |-> 0]
    ELSE [i \in 1..Len(values) |-> SeqMax(values) - values[i]]

rms_before_vals(cands) == [i \in 1..Len(cands) |-> cands[i].rms_before]
rms_after_vals(cands) == [i \in 1..Len(cands) |-> cands[i].rms_after]

\* a score of 1.0 in the units of the song scores of this candidate list
SongScale(cands) ==
    10 * NormDen(rms_before_vals(cands)) * NormDen(rms_after_vals(cands))

\* faulty variant: the penalties without the rms_before > 0 guard
RisePenalty_NoGuard(rb, ra, unit) ==
    (IF 4 * ra > 5 * rb THEN 5 * unit ELSE 0)
    + (IF 2 * ra > 3 * rb THEN 8 * unit ELSE 0)

\* the two penalties (0.5 and 0.8) in tenths of unit:
\* rms_after > rms_before * 1.25 and rms_after > rms_before * 1.5
RisePenalty(rb, ra, unit) ==
    (IF rb > 0 /\ 4 * ra > 5 * rb THEN 5 * unit ELSE 0)
    + (IF rb > 0 /\ 2 * ra > 3 * rb THEN 8 * unit ELSE 0)

_score_song_candidates(cands) ==
    LET db == NormDen(rms_before_vals(cands))
        da == NormDen(rms_after_vals(cands))
        norm_before == _normalize(rms_before_vals(cands))
        norm_after == _normalize(rms_after_vals(cands))
    IN  [idx \in 1..Len(cands) |->
            (IF cands[idx].beat_aligned THEN 10 * db * da ELSE 0)
            + 6 * norm_before[idx] * da
            + 4 * norm_after[idx] * db
            - RisePenalty(cands[idx].rms_before, cands[idx].rms_after, db * da)]

----------------------------------------------------------------------------
(* Text: a str is the sequence of its characters *)

UpperChars == {"A", "B", "C", "D", "E", "F", "G", "H", "I", "J", "K", "L", "M",
               "N", "O", "P", "Q", "R", "S", "T", "U", "V", "W", "X", "Y", "Z"}
LowerChars == {"a", "b", "c", "d", "e", "f", "g", "h", "i", "j", "k", "l", "m",
               "n", "o", "p", "q", "r", "s", "t", "u", "v", "w", "x", "y", "z"}
DigitChars == {"0", "1", "2", "3", "4", "5", "6", "7", "8", "9"}
\* the characters str.strip removes and the regex class \s matches
SpaceChars == {" ", "\t", "\n", "\r"}
\* the regex class [.!?]
TerminalChars == {".", "!", "?"}
\* the regex class ["')\]]
ClosingChars == {"\"", "'", ")", "]"}
\* the regex class [A-Z0-9"'(\[]
OpeningChars == UpperChars \cup DigitChars \cup {"\"", "'", "(", "["}

TRANSCRIPT_UNAVAILABLE ==
    <<"T", "R", "A", "N", "S", "C", "R", "I", "P", "T", "_",
      "U", "N", "A", "V", "A", "I", "L", "A", "B", "L", "E">>

RECURSIVE lstrip(_)
lstrip(text) ==
    IF text # <<>> /\ Head(text) \in SpaceChars THEN lstrip(Tail(text)) ELSE text

RECURSIVE rstrip(_)
rstrip(text) ==
    IF text # <<>> /\ text[Len(text)] \in SpaceChars
    THEN rstrip(SubSeq(text, 1, Len(text) - 1))
    ELSE text

strip(text) == rstrip(lstrip(text))

\* re.search(r'[.!?]["\')\]]?$', text.strip())
_ends_sentence(text) ==
    LET cleaned == strip(text)
        n == Len(cleaned)
    IN  \/ n >= 1 /\ cleaned[n] \in TerminalChars
        \/ n >= 2 /\ cleaned[n] \in ClosingChars /\ cleaned[n - 1] \in TerminalChars

\* re.match(r"[A-Z0-9\"'(\[]", text.lstrip())
_starts_new_sentence(text) ==
    LET cleaned == lstrip(text)
    IN  cleaned # <<>> /\ Head(cleaned) \in OpeningChars

_mid_sentence_penalty(text) ==
    LET cleaned == strip(text)
    IN  /\ cleaned # <<>>
        /\ ~_ends_sentence(cleaned)
        /\ cleaned[Len(cleaned)] \in UpperChars \cup LowerChars \cup DigitChars

\* a score of 1.0 in the units of the spoken-word scores
PodScale == 500

_score_podcast_candidate(candidate) ==
    LET silence_ms == IF candidate.silence_ms = None THEN 0 ELSE candidate.silence_ms
        before == IF candidate.transcript_before = TRANSCRIPT_UNAVAILABLE
                  THEN <<>> ELSE candidate.transcript_before
        after == IF candidate.transcript_after = TRANSCRIPT_UNAVAILABLE
                 THEN <<>> ELSE candidate.transcript_after
    IN  Min(silence_ms, 2 * PodScale)
        + (IF before # <<>> /\ _ends_sentence(before) THEN PodScale ELSE 0)
        + (IF after # <<>> /\ _starts_new_sentence(after) THEN PodScale \div 2 ELSE 0)
        - (IF before # <<>> /\ _mid_sentence_penalty(before) THEN PodScale ELSE 0)

\* faulty variant: the last index of a greatest score
ArgMax_Last(values) ==
    (CHOOSE i \in 1..Len(values) :
        /\ \A j \in 1..Len(values) : values[j] <= values[i]
        /\ \A j \in (i + 1)..Len(values) : values[j] < values[i]) - 1

\* max(range(len(scores)), key=lambda i: scores[i]): the first index (from 0)
\* of a greatest score
ArgMax(values) ==
    (CHOOSE i \in 1..Len(values) :
        /\ \A j \in 1..Len(values) : values[j] <= values[i]
        /\ \A j \in 1..(i - 1) : values[j] < values[i]) - 1

HeuristicScores(m, cands) ==
    IF m = "song" THEN _score_song_candidates(cands)
    ELSE [i \in 1..Len(cands) |-> _score_podcast_candidate(cands[i])]

HeuristicRationale(m) ==
    IF m = "song"
    THEN "Heuristic: beat alignment + low RMS valley with minimal post-insert rise."
    ELSE "Heuristic: larger silence gap and sentence boundary cues."

\* the tuple (best_idx, chosen_ms, rationale)
_choose_by_heuristic(m, cands) ==
    IF cands = <<>>
    THEN <<0, 0, "No candidates provided; defaulting to 0ms.">>
    ELSE LET best_idx == ArgMax(HeuristicScores(m, cands))
         IN  <<best_idx, cands[best_idx + 1].insertion_ms, HeuristicRationale(m)>>

----------------------------------------------------------------------------
(* select_best_insertion (llm.py).  An Optional[str] is the empty sequence  *)
(* (None) or the one-element sequence holding the text.  A message built by *)
(* an f-string is the concatenation of its pieces.                          *)

NoText == <<>>
Some(text) == <<text>>

\* faulty variant: the insertion time of the response is not compared with
\* the chosen candidate's
Failure_AnyInsertionTime(resp, cands) ==
    IF resp.kind = "raises" THEN <<resp.error>>
    ELSE IF resp.kind = "not_json"
         THEN <<"Expecting value: line 1 column 1 (char 0)">>
    ELSE IF resp.kind = "not_object"
         THEN <<"list indices must be integers or slices, not str">>
    ELSE IF ~resp.has_index THEN <<"'chosen_candidate_index'">>
    ELSE IF resp.index < 0 \/ resp.index >= Len(cands)
         THEN <<"LLM chose candidate index out of range.">>
    ELSE IF ~resp.has_ms THEN <<"'chosen_insertion_ms'">>
    ELSE <<>>

\* the exception raised inside the try block, <<>> when the response is taken
Failure(resp, cands) ==
    IF resp.kind = "raises" THEN <<resp.error>>
    ELSE IF resp.kind = "not_json"
         THEN <<"Expecting value: line 1 column 1 (char 0)">>
    ELSE IF resp.kind = "not_object"
         THEN <<"list indices must be integers or slices, not str">>
    ELSE IF ~resp.has_index THEN <<"'chosen_candidate_index'">>
    ELSE IF resp.index < 0 \/ resp.index >= Len(cands)
         THEN <<"LLM chose candidate index out of range.">>
    ELSE IF ~resp.has_ms THEN <<"'chosen_insertion_ms'">>
    ELSE IF cands[resp.index + 1].insertion_ms # resp.ms
         THEN <<"LLM insertion_ms does not match chosen candidate.">>
    ELSE <<>>

\* faulty variant: keeps the index the response named
FallbackResult_KeepIndex(m, cands, resp, model, why) ==
    [chosen_candidate_index |->
        IF resp.kind = "object" /\ resp.has_index THEN resp.index
        ELSE _choose_by_heuristic(m, cands)[1],
     chosen_insertion_ms |-> _choose_by_heuristic(m, cands)[2],
     rationale |-> why,
     refined_sponsor_text |-> NoText,
     debug |-> [model |-> model, raw_model_output_json |-> "", why_chosen |-> why]]

\* the SelectionResult built from _choose_by_heuristic
FallbackResult(m, cands, resp, model, why) ==
    [chosen_candidate_index |-> _choose_by_heuristic(m, cands)[1],
     chosen_insertion_ms |-> _choose_by_heuristic(m, cands)[2],
     rationale |-> why,
     refined_sponsor_text |-> NoText,
     debug |-> [model |-> model, raw_model_output_json |-> "", why_chosen |-> why]]

\* the SelectionResult built from the response
AcceptedResult(resp, model) ==
    LET rationale == IF resp.has_rationale THEN strip(resp.rationale) ELSE <<>>
    IN  [chosen_candidate_index |-> resp.index,
         chosen_insertion_ms |-> resp.ms,
         rationale |-> rationale,
         refined_sponsor_text |->
            IF resp.refined = NoText \/ resp.refined = Some(<<>>) THEN NoText
            ELSE Some(strip(resp.refined[1])),
         debug |-> [model |-> model, raw_model_output_json |-> "raw_text",
                    why_chosen |-> rationale]]

select_best_insertion(enabled, m, cands, resp) ==
    IF ~enabled
    THEN FallbackResult(m, cands, resp, "None", <<_choose_by_heuristic(m, cands)[3]>>)
    ELSE IF Failure(resp, cands) # <<>>
    THEN FallbackResult(m, cands, resp, "model",
            <<_choose_by_heuristic(m, cands)[3], " (LLM failed: ">>
            \o Failure(resp, cands) \o <<")">>)
    ELSE AcceptedResult(resp, "model")

----------------------------------------------------------------------------
(* Specification SpecHeuristic: _choose_by_heuristic on bounded payloads *)

RmsLevels == {0, 1000, 1300, 1600}

SnippetTexts ==
    {<<>>, TRANSCRIPT_UNAVAILABLE, <<"o", "k", ".", " ">>, <<"o", "k", "?", "\"">>,
     <<"a", "n", "d">>, <<"W", "e">>, <<" ", "w", "e">>}

HeurProfiles(m) ==
    IF m = "song"
    THEN {PayloadCandidate(0, None, rb, ra, FALSE, <<>>, <<>>) :
            rb \in RmsLevels, ra \in RmsLevels}
         \cup {PayloadCandidate(0, None, rb, rb, TRUE, <<>>, <<>>) : rb \in RmsLevels}
    ELSE {PayloadCandidate(0, None, 0, 0, FALSE, b, <<"W", "e">>) : b \in SnippetTexts}
         \cup {PayloadCandidate(0, sil, 0, 0, FALSE, b, a) :
                  sil \in {600, 1200}, b \in {<<"o", "k", ".", " ">>, <<"a", "n", "d">>},
                  a \in {<<>>, <<" ", "w", "e">>}}

\* candidate i of a payload is inserted at second i
AtSecond(profile, i) == [profile EXCEPT !.insertion_ms = 1000 * i]

PayloadsOf(profiles) ==
    UNION {{[i \in 1..n |-> AtSecond(f[i], i)] : f \in [1..n -> profiles]}
           : n \in 0..MaxPayload}

InitHeuristic ==
    /\ pc = "heuristic"
    /\ mode \in {"podcast", "song"}
    /\ candidates \in PayloadsOf(HeurProfiles(mode))
    /\ duration_ms = 1000 * (MaxPayload + 1)
    /\ level = 0
    /\ silence_ranges = <<>>
    /\ beat_times_ms = <<>>
    /\ minima_ms = <<>>
    /\ candidates_ms = <<>>
    /\ bump = 0
    /\ top_n = DefaultTopN
    /\ min_sep_ms = DefaultMinSep
    /\ selected = <<>>
    /\ AuxIdle

recVars == <<mode, duration_ms, level, silence_ranges, beat_times_ms, minima_ms,
             candidates_ms, candidates, bump, top_n, min_sep_ms, selected>>

\* _choose_by_heuristic with no candidates
NoCandidates ==
    /\ pc = "heuristic"
    /\ candidates = <<>>
    /\ result' = _choose_by_heuristic(mode, candidates)
    /\ pc' = "chosen"
    /\ UNCHANGED <<editVars, recVars, whisper, transcripts, raised, recommendations,
                   llm_enabled, response, promo_ms, insert_at_ms, crossfade_ms,
                   duck_db, splice, buffer, lufs, pathway, effects, norm, scores>>

ScoreSongCandidates ==
    /\ pc = "heuristic"
    /\ candidates # <<>>
    /\ mode = "song"
    /\ norm' = <<_normalize(rms_before_vals(candidates)),
                 _normalize(rms_after_vals(candidates))>>
    /\ scores' = _score_song_candidates(candidates)
    /\ pc' = "scored"
    /\ UNCHANGED <<editVars, recVars, whisper, transcripts, raised, recommendations,
                   llm_enabled, response, result, promo_ms, insert_at_ms,
                   crossfade_ms, duck_db, splice, buffer, lufs, pathway, effects>>

ScorePodcastCandidates ==
    /\ pc = "heuristic"
    /\ candidates # <<>>
    /\ mode # "song"
    /\ scores' = HeuristicScores(mode, candidates)
    /\ pc' = "scored"
    /\ UNCHANGED <<editVars, recVars, whisper, transcripts, raised, recommendations,
                   llm_enabled, response, result, promo_ms, insert_at_ms,
                   crossfade_ms, duck_db, splice, buffer, lufs, pathway, effects,
                   norm>>

ChooseBest ==
    /\ pc = "scored"
    /\ result' = <<ArgMax(scores), candidates[ArgMax(scores) + 1].insertion_ms,
                   HeuristicRationale(mode)>>
    /\ pc' = "chosen"
    /\ UNCHANGED <<editVars, recVars, whisper, transcripts, raised, recommendations,
                   llm_enabled, response, promo_ms, insert_at_ms, crossfade_ms,
                   duck_db, splice, buffer, lufs, pathway, effects, norm, scores>>

NextHeuristic ==
    NoCandidates \/ ScoreSongCandidates \/ ScorePodcastCandidates \/ ChooseBest

SpecHeuristic == InitHeuristic /\ [][NextHeuristic]_vars

----------------------------------------------------------------------------
(* Claims about the alternate music scoring, checked under SpecHeuristic *)

SongScored == mode = "song" /\ pc \in {"scored", "chosen"} /\ candidates # <<>>

\* the rms_before (k = 1) or rms_after (k = 2) values of the candidates
RmsVals(k) ==
    IF k = 1 THEN rms_before_vals(candidates) ELSE rms_after_vals(candidates)

\* every normalised value is in [0, 1], and all are 0 when min = max
NormalisedWithinUnit(k) ==
    /\ \A i \in 1..Len(candidates) :
          0 <= norm[k][i] /\ norm[k][i] <= NormDen(RmsVals(k))
    /\ SeqMax(RmsVals(k)) = SeqMin(RmsVals(k))
          => \A i \in 1..Len(candidates) : norm[k][i] = 0

\* C20 (as claimed): the normalisation of the alternate music scoring maps
\* every value into [0,1], maps all values to 0 when they are equal, and
\* otherwise maps v to (v - min) / (max - min): the minimum to 0, the maximum
\* to 1.
C20_MinMaxScaled ==
    SongScored =>
        \A k \in 1..2 :
            /\ NormalisedWithinUnit(k)
            /\ \A i \in 1..Len(candidates) :
                  SeqMax(RmsVals(k)) # SeqMin(RmsVals(k)) =>
                      norm[k][i] * (SeqMax(RmsVals(k)) - SeqMin(RmsVals(k)))
                        = (RmsVals(k)[i] - SeqMin(RmsVals(k))) * NormDen(RmsVals(k))

\* C20 (amended): the normalisation maps every value into [0,1], maps all
\* values to 0 when they are equal, and otherwise maps v to
\* (max - v) / (max - min): the minimum to 1, the maximum to 0.
C20_InvertedMinMax ==
    SongScored =>
        \A k \in 1..2 :
            /\ NormalisedWithinUnit(k)
            /\ \A i \in 1..Len(candidates) :
                  SeqMax(RmsVals(k)) # SeqMin(RmsVals(k)) =>
                      /\ norm[k][i] * (SeqMax(RmsVals(k)) - SeqMin(RmsVals(k)))
                            = (SeqMax(RmsVals(k)) - RmsVals(k)[i]) * NormDen(RmsVals(k))
                      /\ RmsVals(k)[i] = SeqMin(RmsVals(k))
                            => norm[k][i] = NormDen(RmsVals(k))
                      /\ RmsVals(k)[i] = SeqMax(RmsVals(k)) => norm[k][i] = 0

\* two candidates whose rms_before differ and whose rms_after are equal
C20_Witness ==
    /\ SongScored
    /\ Len(candidates) >= 2
    /\ candidates[1].rms_before < candidates[2].rms_before
    /\ candidates[1].rms_after = candidates[2].rms_after
    /\ norm[1][1] > norm[1][2]

\* the score of candidate idx before the two rise penalties, from the
\* normalised values the scorer computed
Unpenalised(idx) ==
    (IF candidates[idx].beat_aligned THEN SongScale(candidates) ELSE 0)
    + 6 * norm[1][idx] * NormDen(RmsVals(2))
    + 4 * norm[2][idx] * NormDen(RmsVals(1))

\* 0.1 in the units of the song scores
Tenth == SongScale(candidates) \div 10

\* C19 (as claimed): for all non-negative rms_before and rms_after,
\* rms_before = 0 included, the score is reduced by 0.5 whenever
\* rms_after > 1.25 * rms_before, by a further 0.8 whenever
\* rms_after > 1.5 * rms_before, and by nothing otherwise.
C19_RisePenalties ==
    SongScored =>
        \A i \in 1..Len(candidates) :
            Unpenalised(i) - scores[i]
              = (IF 4 * candidates[i].rms_after > 5 * candidates[i].rms_before
                 THEN 5 * Tenth ELSE 0)
                + (IF 2 * candidates[i].rms_after > 3 * candidates[i].rms_before
                   THEN 8 * Tenth ELSE 0)

\* C19 (amended): when rms_before > 0 the score is reduced by 0.5 whenever
\* rms_after > 1.25 * rms_before and by a further 0.8 whenever
\* rms_after > 1.5 * rms_before; when rms_before = 0 it is not reduced,
\* whatever rms_after is.
C19_RisePenaltiesWhenBeforePositive ==
    SongScored =>
        \A i \in 1..Len(candidates) :
            /\ candidates[i].rms_before > 0 =>
                  Unpenalised(i) - scores[i]
                    = (IF 4 * candidates[i].rms_after > 5 * candidates[i].rms_before
                       THEN 5 * Tenth ELSE 0)
                      + (IF 2 * candidates[i].rms_after > 3 * candidates[i].rms_before
                         THEN 8 * Tenth ELSE 0)
            /\ candidates[i].rms_before = 0 => Unpenalised(i) = scores[i]

\* one candidate rising from silence, one taking the first penalty only,
\* one taking both
C19_Witness ==
    /\ SongScored
    /\ \E i \in 1..Len(candidates) :
          /\ candidates[i].rms_before = 0
          /\ candidates[i].rms_after > 0
          /\ scores[i] = Unpenalised(i)
    /\ \E i \in 1..Len(candidates) :
          /\ candidates[i].rms_before > 0
          /\ Unpenalised(i) - scores[i] \in {5 * Tenth, 13 * Tenth}

\* C24: the best index _choose_by_heuristic returns is an index of a greatest
\* score and the smallest such index, in both modes, and the insertion
\* returned is that candidate's; for an empty candidate list it returns
\* index 0 and 0 ms and raises nothing.
C24_FirstArgMax ==
    pc = "chosen" =>
        /\ raised = ""
        /\ candidates = <<>> => (result[1] = 0 /\ result[2] = 0)
        /\ candidates # <<>> =>
              /\ Len(scores) = Len(candidates)
              /\ result[1] \in 0..(Len(scores) - 1)
              /\ \A j \in 1..Len(scores) : scores[j] <= scores[result[1] + 1]
              /\ \A j \in 1..result[1] : scores[j] < scores[result[1] + 1]
              /\ result[2] = candidates[result[1] + 1].insertion_ms

\* two spoken-word candidates with the same, greatest score: the first is chosen
C24_Witness ==
    /\ pc = "chosen"
    /\ mode = "podcast"
    /\ Len(scores) = 2
    /\ scores[1] = scores[2]
    /\ candidates[1] # [candidates[2] EXCEPT !.insertion_ms = candidates[1].insertion_ms]
    /\ result[1] = 0

----------------------------------------------------------------------------
(* Specification SpecArbitrate: select_best_insertion on bounded payloads *)
(* and on the outcomes of the chat completion call                         *)

ArbProfiles(m) ==
    IF m = "song"
    THEN {PayloadCandidate(0, None, 0, 0, FALSE, <<>>, <<>>),
          PayloadCandidate(0, None, 1000, 1300, TRUE, <<>>, <<>>),
          PayloadCandidate(0, None, 1600, 1000, FALSE, <<>>, <<>>)}
    ELSE {PayloadCandidate(0, None, 0, 0, FALSE,
                           TRANSCRIPT_UNAVAILABLE, TRANSCRIPT_UNAVAILABLE),
          PayloadCandidate(0, 600, 0, 0, FALSE, <<"o", "k", ".", " ">>, <<"W", "e">>),
          PayloadCandidate(0, 1200, 0, 0, FALSE, <<"a", "n", "d">>, <<" ", "w", "e">>)}

\* what json.loads(raw_text) yields when raw_text is a JSON object: each key
\* of the schema present or not, the refined text null, empty or a text
ObjectResponses ==
    {[kind |-> "object", has_index |-> hi, index |-> idx, has_ms |-> hm, ms |-> ms,
      has_rationale |-> hr, rationale |-> <<" ", "o", "k", " ">>, refined |-> ref] :
        hi \in BOOLEAN, idx \in -1..MaxPayload, hm \in BOOLEAN,
        ms \in {1000 * k : k \in 0..2}, hr \in BOOLEAN,
        ref \in {NoText, Some(<<>>), Some(<<" ">>), Some(<<" ", "B", "u", "y", ".", " ">>)}}

ArbResponses ==
    {[kind |-> "raises", error |-> "Connection error."],
     [kind |-> "not_json"], [kind |-> "not_object"]} \cup ObjectResponses

InitArbitrate ==
    /\ pc = "arbitrate"
    /\ mode \in {"podcast", "song"}
    /\ candidates \in PayloadsOf(ArbProfiles(mode))
    /\ duration_ms = 1000 * (MaxPayload + 1)
    /\ level = 0
    /\ silence_ranges = <<>>
    /\ beat_times_ms = <<>>
    /\ minima_ms = <<>>
    /\ candidates_ms = <<>>
    /\ bump = 0
    /\ top_n = DefaultTopN
    /\ min_sep_ms = DefaultMinSep
    /\ selected = <<>>
    /\ whisper = FALSE
    /\ transcripts = <<>>
    /\ raised = ""
    /\ recommendations = <<>>
    /\ llm_enabled \in BOOLEAN
    /\ response = [kind |-> "not_called"]
    /\ result = <<>>
    /\ promo_ms = 0
    /\ insert_at_ms = 0
    /\ crossfade_ms = 0
    /\ duck_db = 0
    /\ splice = <<>>
    /\ buffer = <<>>
    /\ lufs = <<>>
    /\ pathway = ""
    /\ effects = <<>>
    /\ norm = <<>>
    /\ scores = <<>>
    /\ EditIdle

\* select_best_insertion: without the provider or the key it returns the
\* heuristic's choice before the client is built; otherwise it asks the chat
\* completion once and reads the answer inside the try block
SelectBestInsertion ==
    /\ pc = "arbitrate"
    /\ \E answer \in IF llm_enabled THEN ArbResponses ELSE {response} :
          /\ response' = answer
          /\ result' = select_best_insertion(llm_enabled, mode, candidates, answer)
    /\ effects' = IF llm_enabled THEN Append(effects, "chat.completions.create")
                  ELSE effects
    /\ pc' = "returned"
    /\ UNCHANGED <<editVars, recVars, whisper, transcripts, raised, recommendations,
                   llm_enabled, promo_ms, insert_at_ms, crossfade_ms,
                   duck_db, splice, buffer, lufs, pathway, norm, scores>>

NextArbitrate == SelectBestInsertion

SpecArbitrate == InitArbitrate /\ [][NextArbitrate]_vars

----------------------------------------------------------------------------
(* Claims about select_best_insertion, checked under SpecArbitrate *)

IndexOutOfRange ==
    /\ response.kind = "object" /\ response.has_index
    /\ (response.index < 0 \/ response.index >= Len(candidates))

InsertionMismatch ==
    /\ response.kind = "object" /\ response.has_index
    /\ response.index \in 0..(Len(candidates) - 1)
    /\ response.has_ms
    /\ response.ms # candidates[response.index + 1].insertion_ms

\* no choice can be read from the response: it is not JSON, not a JSON
\* object, or lacks the index or the insertion time
Malformed ==
    \/ response.kind \in {"not_json", "not_object"}
    \/ /\ response.kind = "object"
       /\ (~response.has_index \/ (~IndexOutOfRange /\ ~response.has_ms))

CallRaises == response.kind = "raises"

HeuristicPath == ~llm_enabled
AcceptedPath == llm_enabled /\ Failure(response, candidates) = <<>>
RejectedPath == llm_enabled /\ Failure(response, candidates) # <<>>

\* C30: for every non-empty candidate list, on every path of
\* select_best_insertion (no provider or no key, accepted response, rejected
\* or failed response) the chosen index is an index of the list and the
\* chosen insertion time is that candidate's; without the provider or the key
\* the chat completion is never called.
C30_ChoiceNamesCandidate ==
    /\ (pc = "returned" /\ candidates # <<>>) =>
          /\ HeuristicPath \/ AcceptedPath \/ RejectedPath
          /\ result.chosen_candidate_index \in 0..(Len(candidates) - 1)
          /\ result.chosen_insertion_ms =
                candidates[result.chosen_candidate_index + 1].insertion_ms
    /\ (pc = "returned" /\ HeuristicPath) =>
          /\ effects = <<>>
          /\ response.kind = "not_called"
          /\ result.debug.model = "None"
    /\ (pc = "returned" /\ ~HeuristicPath) =>
          effects = <<"chat.completions.create">>

\* an accepted response chooses a candidate the heuristic would not have
\* chosen, out of several
C30_Witness ==
    /\ pc = "returned" /\ AcceptedPath
    /\ Len(candidates) > 1
    /\ effects = <<"chat.completions.create">>
    /\ result.chosen_candidate_index = response.index
    /\ result.chosen_candidate_index # _choose_by_heuristic(mode, candidates)[1]
    /\ result.chosen_insertion_ms =
          candidates[result.chosen_candidate_index + 1].insertion_ms

----------------------------------------------------------------------------
(* The splicer of mix.py.  An AudioSegment is known by its length in        *)
(* milliseconds, which is all that slicing, overlaying and appending with a *)
(* crossfade need to determine the length of their result.                  *)

\* len(audio[start:end]): pydub clips both ends of a slice to the segment
SliceLen(length, start, end) ==
    Max(0, Min(end, length) - Min(start, length))

\* faulty variant: the overlay extends the base to the overlaid segment
OverlayLen_Extends(base_len, other_len) == Max(base_len, other_len)

\* len(base.overlay(other)): the result has the length of the base
OverlayLen(base_len, other_len) == base_len

\* len(seg1.append(seg2, crossfade=cf))
AppendLen(len1, len2, cf) == len1 + len2 - cf

\* faulty variant: the whole insert is placed between pre and post
insert_with_crossfade_WholeInsert(main_len, promo_len, at_ms, duck, cf_ms) ==
    LET ins == Max(0, at_ms)
        pre == SliceLen(main_len, 0, ins)
        post == SliceLen(main_len, ins + promo_len, main_len)
        mid == promo_len
        cf1 == Min(cf_ms, Min(pre, mid))
        merged1 == AppendLen(pre, mid, cf1)
        cf2 == Min(cf_ms, Min(merged1, post))
    IN  [pre |-> pre, mid |-> mid, post |-> post, cf1 |-> cf1, cf2 |-> cf2,
         ducked |-> duck > 0, merged |-> AppendLen(merged1, post, cf2)]

\* the lengths insert_with_crossfade computes, in the order it computes them
insert_with_crossfade(main_len, promo_len, at_ms, duck, cf_ms) ==
    LET ins == Max(0, at_ms)
        pre == SliceLen(main_len, 0, ins)
        post == SliceLen(main_len, ins + promo_len, main_len)
        mid == OverlayLen(SliceLen(main_len, ins, ins + promo_len), promo_len)
        cf1 == Min(cf_ms, Min(pre, mid))
        merged1 == AppendLen(pre, mid, cf1)
        cf2 == Min(cf_ms, Min(merged1, post))
    IN  [pre |-> pre, mid |-> mid, post |-> post, cf1 |-> cf1, cf2 |-> cf2,
         ducked |-> duck > 0, merged |-> AppendLen(merged1, post, cf2)]

\* Specification SpecSplice: insert_with_crossfade on bounded inputs
HostLengths == {0, 1000, 3000}
PromoLengths == {0, 100, 600, 2500}
InsertPoints == {-1, 0, 200, 1000, 2900, 3000, 3200}
CrossfadeLengths == {0, 100, DefaultCrossfade, 1000}

InitSplice ==
    /\ pc = "splice"
    /\ mode = "podcast"
    /\ duration_ms \in HostLengths
    /\ level = 0
    /\ silence_ranges = <<>>
    /\ beat_times_ms = <<>>
    /\ minima_ms = <<>>
    /\ candidates_ms = <<>>
    /\ candidates = <<>>
    /\ bump = 0
    /\ top_n = DefaultTopN
    /\ min_sep_ms = DefaultMinSep
    /\ selected = <<>>
    /\ whisper = FALSE
    /\ transcripts = <<>>
    /\ raised = ""
    /\ recommendations = <<>>
    /\ llm_enabled = FALSE
    /\ response = <<>>
    /\ result = <<>>
    /\ promo_ms \in PromoLengths
    /\ insert_at_ms \in InsertPoints
    /\ crossfade_ms \in CrossfadeLengths
    /\ duck_db \in {0, 6}
    /\ splice = <<>>
    /\ buffer = <<>>
    /\ lufs = <<>>
    /\ pathway = ""
    /\ effects = <<>>
    /\ norm = <<>>
    /\ scores = <<>>
    /\ EditIdle

InsertWithCrossfade ==
    /\ pc = "splice"
    /\ splice' = insert_with_crossfade(duration_ms, promo_ms, insert_at_ms,
                                       duck_db, crossfade_ms)
    /\ pc' = "spliced"
    /\ UNCHANGED <<editVars, recVars, whisper, transcripts, raised, recommendations,
                   llm_enabled, response, result, promo_ms, insert_at_ms,
                   crossfade_ms, duck_db, buffer, lufs, pathway, effects, norm,
                   scores>>

NextSplice == InsertWithCrossfade

SpecSplice == InitSplice /\ [][NextSplice]_vars

----------------------------------------------------------------------------
(* Claims about insert_with_crossfade, checked under SpecSplice *)

InsertWithinHost == 0 <= insert_at_ms /\ insert_at_ms <= duration_ms

\* crossfade_ms is not longer than any of the three segments
CrossfadeFits ==
    /\ crossfade_ms <= splice.pre
    /\ crossfade_ms <= splice.mid
    /\ crossfade_ms <= splice.post

\* C12 (as claimed): for an insertion point within the host and a
\* crossfade_ms not longer than the adjacent segments, the returned buffer
\* lasts host duration + insert duration - (first overlap + second overlap).
C12_DurationGrowsByInsert ==
    (pc = "spliced" /\ InsertWithinHost /\ CrossfadeFits) =>
        splice.merged = duration_ms + promo_ms - (splice.cf1 + splice.cf2)

\* C12 (amended): for an insertion point within the host and a crossfade_ms
\* not longer than the adjacent segments, the returned buffer lasts
\* len(pre) + len(mid) + len(post) - (first overlap + second overlap), which
\* is host duration - (first overlap + second overlap): the insert is laid
\* over the host segment it covers and adds nothing to the duration.
C12_DurationIsHostLessOverlaps ==
    (pc = "spliced" /\ InsertWithinHost /\ CrossfadeFits) =>
        /\ splice.merged = splice.pre + splice.mid + splice.post
                             - (splice.cf1 + splice.cf2)
        /\ splice.merged = duration_ms - (splice.cf1 + splice.cf2)

\* an insert in the middle of the host with both crossfades at full length
C12_Witness ==
    /\ pc = "spliced" /\ InsertWithinHost /\ CrossfadeFits
    /\ promo_ms > 0
    /\ splice.cf1 = DefaultCrossfade /\ splice.cf2 = DefaultCrossfade
    /\ splice.merged = duration_ms - 2 * DefaultCrossfade

\* C13: with the insert overlaid on the host segment it covers, the returned
\* buffer lasts exactly as long as the host, for every insertion point
\* within the host, every insert length and every crossfade_ms >= 0.
C13_DurationIsHost ==
    (pc = "spliced" /\ InsertWithinHost /\ crossfade_ms >= 0) =>
        splice.merged = duration_ms

\* C14: the first crossfade is at most min(crossfade_ms, len(pre), len(mid))
\* and the second at most min(crossfade_ms, len(mid), len(post)), so the
\* second crossfade never reaches back into the host audio before the insert.
C14_CrossfadesClipped ==
    pc = "spliced" =>
        /\ splice.cf1 <= Min(crossfade_ms, Min(splice.pre, splice.mid))
        /\ splice.cf2 <= Min(crossfade_ms, Min(splice.mid, splice.post))

\* C27: the insert is overlaid only on the host segment [P, P + D) that
\* exists: the overlaid segment lasts min(D, max(0, host duration - P)), so
\* what of the insert would lie beyond the end of the host is dropped (all of
\* it when P >= host duration); the result lasts
\* len(pre) + len(mid) + len(post) - cf1 - cf2, which is
\* host duration - cf1 - cf2 for P <= host duration.
C27_OverlayWithinHost ==
    (pc = "spliced" /\ insert_at_ms >= 0) =>
        /\ splice.mid = Min(promo_ms, Max(0, duration_ms - insert_at_ms))
        /\ insert_at_ms >= duration_ms => splice.mid = 0
        /\ splice.merged = splice.pre + splice.mid + splice.post
                             - splice.cf1 - splice.cf2
        /\ insert_at_ms <= duration_ms =>
              splice.merged = duration_ms - splice.cf1 - splice.cf2

\* an insert that starts within the host and would end after it
C27_Witness ==
    /\ pc = "spliced"
    /\ 0 < insert_at_ms /\ insert_at_ms < duration_ms
    /\ insert_at_ms + promo_ms > duration_ms
    /\ splice.mid = duration_ms - insert_at_ms
    /\ splice.post = 0
    /\ splice.cf1 > 0
    /\ splice.merged = duration_ms - splice.cf1

----------------------------------------------------------------------------
(* The loudness matcher of mix.py.  A float is a record: finite values are  *)
(* kept in hundredths of a loudness unit; the infinities and NaN are kept   *)
(* apart, as IEEE arithmetic keeps them.  A buffer is known by its length   *)
(* in ms and by the rms of its samples (0 for digital silence).             *)

Float(hundredths) == [kind |-> "finite", val |-> hundredths]
NegInf == [kind |-> "-inf", val |-> 0]
PosInf == [kind |-> "+inf", val |-> 0]
NaN == [kind |-> "nan", val |-> 0]

\* a - b on floats
FloatSub(a, b) ==
    IF a.kind = "nan" \/ b.kind = "nan" THEN NaN
    ELSE IF a.kind = "finite" /\ b.kind = "finite" THEN Float(a.val - b.val)
    ELSE IF a.kind = b.kind THEN NaN
    ELSE IF a.kind = "+inf" \/ b.kind = "-inf" THEN PosInf
    ELSE NegInf

\* the block of the meter: 400 ms
BlockMs == 400
\* the absolute gate of the meter: blocks at or below -70 LUFS are dropped
GateLufs == -7000
\* the value measure_lufs returns for a buffer without samples
EmptyLufs == -7000

\* the sample levels of the model: digital silence, full scale, and 20, 40,
\* 60 and 80 dB below full scale
BufferLevels == {0, 3, 33, 328, 3277, 32768}

\* 20 * log10(rms / 32768) in hundredths of a dB
LevelDb(rms) ==
    CASE rms = 32768 -> 0
      [] rms = 3277 -> -2000
      [] rms = 328 -> -4000
      [] rms = 33 -> -6000
      [] rms = 3 -> -8000

\* 20 * log10(1 / 32768): the level of the smallest non-zero sample
QuantumDb == -9031

\* a buffer of the given length whose samples have the given rms
Buffer(ms, rms) ==
    [ms |-> ms, silent |-> rms = 0, db |-> IF rms = 0 THEN 0 ELSE LevelDb(rms)]

\* meter.integrated_loudness(samples): it raises on audio shorter than one
\* block; the loudness of a block is -0.691 + 10 * log10(mean square); blocks
\* at or below the gate are dropped, and the loudness of no blocks at all is
\* 10 * log10(0)
integrated_loudness(buf) ==
    IF buf.ms < BlockMs THEN [raises |-> TRUE, value |-> NaN]
    ELSE IF buf.silent \/ buf.db - 69 <= GateLufs
         THEN [raises |-> FALSE, value |-> NegInf]
    ELSE [raises |-> FALSE, value |-> Float(buf.db - 69)]

measure_lufs(buf) ==
    IF buf.ms = 0 THEN [raises |-> FALSE, value |-> Float(EmptyLufs)]
    ELSE integrated_loudness(buf)

\* audio.apply_gain(gain_db): the buffers the gain can produce.  A finite
\* gain shifts the level, clips at full scale and loses what falls below the
\* smallest sample; a gain of -inf silences; a gain of +inf drives every
\* non-zero sample to full scale, and 0 * inf and a NaN factor are NaN, whose
\* conversion to a sample is not defined.
apply_gain(buf, gain_db) ==
    IF buf.ms = 0 THEN {buf}
    ELSE IF gain_db.kind = "finite" THEN
        {IF buf.silent \/ buf.db + gain_db.val < QuantumDb
         THEN [buf EXCEPT !.silent = TRUE, !.db = 0]
         ELSE [buf EXCEPT !.db = Min(0, buf.db + gain_db.val)]}
    ELSE IF gain_db.kind = "-inf" THEN {[buf EXCEPT !.silent = TRUE, !.db = 0]}
    ELSE IF gain_db.kind = "+inf" /\ ~buf.silent THEN {[buf EXCEPT !.db = 0]}
    ELSE {Buffer(buf.ms, l) : l \in BufferLevels}

\* the range <<start, end>> context_window slices the recording with
context_window_range(length, center_ms, window_ms) ==
    <<Max(0, center_ms - window_ms), Min(length, center_ms + window_ms)>>

\* len(context_window(audio, center_ms, window_ms))
context_window(length, center_ms, window_ms) ==
    SliceLen(length, Max(0, center_ms - window_ms), Min(length, center_ms + window_ms))

----------------------------------------------------------------------------
(* Specification SpecRun: the two insertion runs, cli.run (one promo voice, *)
(* merged by the merge service) and insert_ad.run (two-speaker ad, spliced  *)
(* locally), from the moment the insert has been synthesized                *)

\* longest promo cli.run accepts
MaxPromoMs == 20000
\* longest ad insert_ad.run accepts
MaxAdMs == 25000

MaxInsertMs(run) == IF run.name = "promo" THEN MaxPromoMs ELSE MaxAdMs

TooLongMessage(run) ==
    IF run.name = "promo"
    THEN "Promo audio is longer than 20 seconds; please shorten it."
    ELSE "Ad audio is longer than 25 seconds; shorten the script."

\* faulty variant: an insert of exactly the maximum is refused
TooLong_AtLimit(run, length) == length >= MaxInsertMs(run)

TooLong(run, length) == length > MaxInsertMs(run)

RunHostLengths == {0, 300, 8000}
RunHostLevels == {0, 3, 328, 3277}
RunInsertLengths ==
    {0, 200, 5000, MaxPromoMs - 1, MaxPromoMs, MaxPromoMs + 1,
     MaxAdMs - 1, MaxAdMs, MaxAdMs + 1}
RunInsertLevels == {0, 328, 3277}

InitRun ==
    /\ pc = "check"
    /\ mode = "podcast"
    /\ duration_ms \in RunHostLengths
    /\ level \in RunHostLevels
    /\ silence_ranges = <<>>
    /\ beat_times_ms = <<>>
    /\ minima_ms = <<>>
    /\ candidates_ms = <<>>
    /\ candidates = <<>>
    /\ bump = 0
    /\ top_n = DefaultTopN
    /\ min_sep_ms = DefaultMinSep
    /\ selected = <<>>
    /\ whisper = FALSE
    /\ transcripts = <<>>
    /\ raised = ""
    /\ recommendations = <<>>
    /\ llm_enabled = FALSE
    /\ response = <<>>
    /\ result = <<>>
    /\ promo_ms \in RunInsertLengths
    \* chosen_ms = min(chosen_ms, len(main_audio) - 1) when the host is not empty
    /\ insert_at_ms \in {0, duration_ms \div 2, Max(0, duration_ms - 1)}
    /\ crossfade_ms = DefaultCrossfade
    /\ duck_db = 0
    /\ splice = <<>>
    /\ buffer \in {Buffer(promo_ms, l) : l \in RunInsertLevels}
    /\ lufs = <<>>
    /\ pathway \in {[name |-> "promo", dry_run |-> d] : d \in BOOLEAN}
                    \cup {[name |-> "duo", dry_run |-> FALSE]}
    /\ effects = <<>>
    /\ norm = <<>>
    /\ scores = <<>>
    /\ EditIdle

\* half the width of the loudness context window
ContextWindowMs == 4000
\* longest stretch of host audio taken as room tone
RoomToneMs == 600

\* what the steps below leave alone
runFixed == <<recVars, editVars, whisper, transcripts, recommendations, llm_enabled,
              response, result, promo_ms, insert_at_ms, crossfade_ms, duck_db,
              pathway, norm, scores>>

BlockSizeError == "Audio must have length greater than the block size."

\* if len(promo_audio) > 20000 / if len(ad_audio) > 25000: raise RuntimeError
CheckInsertLength ==
    /\ pc = "check"
    /\ IF TooLong(pathway, promo_ms)
       THEN raised' = TooLongMessage(pathway) /\ pc' = "aborted"
       ELSE raised' = raised /\ pc' = "measure"
    /\ UNCHANGED <<runFixed, effects, lufs, buffer, splice>>

\* target_lufs = mix.measure_lufs(mix.context_window(main_audio, chosen_ms))
MeasureTarget ==
    /\ pc = "measure"
    /\ effects' = Append(effects, "measure_target")
    /\ LET context == Buffer(context_window(duration_ms, insert_at_ms, ContextWindowMs),
                             level)
           measured == measure_lufs(context)
       IN  IF measured.raises
           THEN raised' = BlockSizeError /\ pc' = "failed" /\ lufs' = lufs
           ELSE raised' = raised /\ pc' = "match"
                /\ lufs' = [target |-> measured.value]
    /\ UNCHANGED <<runFixed, buffer, splice>>

\* mix.match_loudness(promo, target_lufs)
MatchLoudness ==
    /\ pc = "match"
    /\ effects' = Append(effects, "match_loudness")
    /\ LET promo_before == measure_lufs(buffer)
           gain_db == FloatSub(lufs.target, promo_before.value)
       IN  IF promo_before.raises
           THEN raised' = BlockSizeError /\ pc' = "failed"
                /\ UNCHANGED <<lufs, buffer>>
           ELSE \E matched \in apply_gain(buffer, gain_db) :
                    /\ buffer' = matched
                    /\ lufs' = [target |-> lufs.target,
                                promo_before |-> promo_before.value,
                                gain_db |-> gain_db,
                                promo_after |-> measure_lufs(matched).value]
                    /\ raised' = raised
                    /\ pc' = "room_tone"
    /\ UNCHANGED <<runFixed, splice>>

\* len(loop_to_length(audio, target_ms))
loop_to_length(audio_len, target_ms) == target_ms

\* the fades and mix.apply_room_tone(promo, main_audio[tone_start:chosen_ms])
ApplyRoomTone ==
    /\ pc = "room_tone"
    /\ effects' = Append(effects, "room_tone")
    /\ LET room_tone == SliceLen(duration_ms, Max(0, insert_at_ms - RoomToneMs),
                                  insert_at_ms)
       IN  buffer' = [buffer EXCEPT
                        !.ms = OverlayLen(loop_to_length(room_tone, buffer.ms), buffer.ms)]
    /\ pc' = "output"
    /\ UNCHANGED <<runFixed, raised, lufs, splice>>

\* cli.run with --dry-run prints the choice and returns
DryRun ==
    /\ pc = "output"
    /\ pathway.name = "promo" /\ pathway.dry_run
    /\ pc' = "done"
    /\ UNCHANGED <<runFixed, raised, effects, lufs, buffer, splice>>

\* cli.run: _merge_with_api posts host and insert to the merge service and
\* writes the response to the output file, or raises when the request fails
MergeRequest ==
    /\ pc = "output"
    /\ pathway.name = "promo" /\ ~pathway.dry_run
    /\ \E ok \in BOOLEAN :
          IF ok
          THEN /\ effects' = effects \o <<"merge_request", "write">>
               /\ raised' = raised
               /\ pc' = "done"
          ELSE /\ effects' = Append(effects, "merge_request")
               /\ raised' = "Merge request failed"
               /\ pc' = "failed"
    /\ UNCHANGED <<runFixed, lufs, buffer, splice>>

\* insert_ad.run: mix.insert_with_crossfade, then merged.export
SpliceAndExport ==
    /\ pc = "output"
    /\ pathway.name = "duo"
    /\ splice' = insert_with_crossfade(duration_ms, buffer.ms, insert_at_ms,
                                       duck_db, crossfade_ms)
    /\ effects' = effects \o <<"splice", "write">>
    /\ pc' = "done"
    /\ UNCHANGED <<runFixed, raised, lufs, buffer>>

NextRun ==
    \/ CheckInsertLength
    \/ MeasureTarget
    \/ MatchLoudness
    \/ ApplyRoomTone
    \/ DryRun
    \/ MergeRequest
    \/ SpliceAndExport

SpecRun == InitRun /\ [][NextRun]_vars

----------------------------------------------------------------------------
(* Claims about the runs, checked under SpecRun *)

Empty(buf) == buf.ms = 0
DigitalSilence(buf) == buf.ms > 0 /\ buf.silent

\* the buffer the target loudness is measured on
Context ==
    Buffer(context_window(duration_ms, insert_at_ms, ContextWindowMs), level)

\* C15: measure_lufs returns exactly -70.0 for a buffer without samples and
\* for a buffer of digital silence, never an infinity or an undefined value,
\* so the gain match_loudness computes is finite.
C15_SilenceMeasuresMinus70 ==
    /\ (pc = "match" /\ (Empty(Context) \/ DigitalSilence(Context)))
          => lufs.target = Float(EmptyLufs)
    /\ pc = "match" => lufs.target.kind = "finite"
    /\ pc = "room_tone" => lufs.promo_before.kind = "finite"
    /\ pc = "room_tone" => lufs.gain_db.kind = "finite"

\* C18: an insert longer than the run's maximum (20000 ms for cli.run,
\* 25000 ms for insert_ad.run) aborts the run with an error that names the
\* cause, before any loudness matching, room-tone mixing, splice, merge
\* request or output write; an insert of exactly the maximum is accepted.
C18_TooLongAbortsFirst ==
    /\ (pc # "check" /\ promo_ms > MaxInsertMs(pathway)) =>
          /\ pc = "aborted"
          /\ raised = TooLongMessage(pathway)
          /\ effects = <<>>
    /\ (pc # "check" /\ promo_ms <= MaxInsertMs(pathway)) =>
          /\ pc # "aborted"
          /\ raised # TooLongMessage(pathway)
    /\ pc = "aborted" => promo_ms > IF pathway.name = "promo" THEN 20000 ELSE 25000

\* a promo one millisecond over the maximum of cli.run is refused
C18_Witness ==
    /\ pc = "aborted"
    /\ pathway.name = "promo"
    /\ promo_ms = MaxPromoMs + 1
    /\ effects = <<>>

----------------------------------------------------------------------------
(* Sentence boundaries from transcripts (recommend.py, analysis.py) *)

\* default max_snippets of _apply_transcript_boundaries
MaxSnippets == 8
\* length of the window handed to the transcriber
SnippetWindowMs == 12000

SilenceOrZero(c) == IF c.silence_ms = None THEN 0 ELSE c.silence_ms

\* the indices 1..n of cands by descending silence_ms, equal ones in their
\* original order: sorted(enumerate(candidates), key=..., reverse=True)
RECURSIVE RankedBySilence(_, _)
RankedBySilence(cands, n) ==
    IF n = 0 THEN <<>>
    ELSE LET before == RankedBySilence(cands, n - 1)
             k == Cardinality({j \in 1..Len(before) :
                     SilenceOrZero(cands[before[j]]) >= SilenceOrZero(cands[n])})
         IN  SubSeq(before, 1, k) \o <<n>> \o SubSeq(before, k + 1, Len(before))

\* the indices _apply_transcript_boundaries transcribes, in order
Transcribed(cands) ==
    LET ranked == RankedBySilence(cands, Len(cands))
    IN  SubSeq(ranked, 1, Min(MaxSnippets, Len(ranked)))

\* transcribe_snippet once whisper is importable: an empty window returns ""
\* before the transcriber runs; otherwise the outcome is the transcriber's,
\* the stripped text or the exception it raises (there is no except clause)
transcribe_snippet(dur, start_ms, end_ms, outcome) ==
    LET start == Max(0, start_ms)
        end == Max(start, end_ms)
    IN  IF SliceLen(dur, start, end) = 0 THEN [kind |-> "text", text |-> <<>>]
        ELSE IF outcome.kind = "raises" THEN outcome
        ELSE [kind |-> "text", text |-> strip(outcome.text)]

SnippetOf(cands, dur, outcomes, i) ==
    transcribe_snippet(dur, cands[i].insertion_ms - SnippetWindowMs,
                       cands[i].insertion_ms, outcomes[i])

\* bool(re.search(r"[.!?]\s*$", snippet))
EndsWithTerminal(snippet) ==
    LET t == rstrip(snippet)
    IN  t # <<>> /\ t[Len(t)] \in TerminalChars

\* the exception that leaves _apply_transcript_boundaries, if any
TranscriptionRaises(available, cands, dur, outcomes) ==
    /\ available
    /\ \E j \in 1..Len(Transcribed(cands)) :
          SnippetOf(cands, dur, outcomes, Transcribed(cands)[j]).kind = "raises"

\* f"{candidate.notes},boundary" if candidate.notes else "boundary", for the
\* notes the generators write
WithBoundaryNote(notes) ==
    CASE notes = "" -> "boundary"
      [] notes = "silence" -> "silence,boundary"
      [] notes = "fallback" -> "fallback,boundary"

\* the body of the loop for one candidate and its snippet
MarkBoundary(c, snippet) ==
    IF snippet = <<>> THEN c
    ELSE [c EXCEPT !.boundary = EndsWithTerminal(snippet),
                   !.notes = IF EndsWithTerminal(snippet)
                             THEN WithBoundaryNote(c.notes) ELSE c.notes]

\* the candidates after _apply_transcript_boundaries returned normally
_apply_transcript_boundaries(available, cands, dur, outcomes) ==
    IF ~available \/ cands = <<>> THEN cands
    ELSE [i \in 1..Len(cands) |->
            IF i \in Range(Transcribed(cands))
            THEN MarkBoundary(cands[i], SnippetOf(cands, dur, outcomes, i).text)
            ELSE cands[i]]

----------------------------------------------------------------------------
(* Pros, cons and rationale (recommend.py).  A phrase is the sequence of the *)
(* pieces of its f-string; a list of phrases is a sequence of phrases.       *)

\* quietness >= 0.7, >= 0.6, < 0.5 in the units of _quietness_from_rms
AtLeastTenths(quietness, tenths) == 10 * quietness >= tenths * QDen

\* the phrases whose condition holds, in the order given
RECURSIVE Qualifying(_)
Qualifying(rules) ==
    IF rules = <<>> THEN <<>>
    ELSE (IF rules[1][1] THEN <<rules[1][2]>> ELSE <<>>) \o Qualifying(Tail(rules))

\* " ".join(phrases)
RECURSIVE Join(_)
Join(phrases) ==
    IF phrases = <<>> THEN <<>>
    ELSE IF Len(phrases) = 1 THEN phrases[1]
    ELSE phrases[1] \o <<" ">> \o Join(Tail(phrases))

\* the common tail of both functions: one generic pro when fewer than two
\* qualify, at most three pros, at most two cons or the generic con, and the
\* first two pros joined as the rationale
Finish(pros, cons, generic_pro, generic_con) ==
    LET filled == IF Len(pros) < 2 THEN Append(pros, generic_pro) ELSE pros
        kept == SubSeq(filled, 1, Min(3, Len(filled)))
    IN  [pros |-> kept,
         cons |-> IF cons # <<>> THEN SubSeq(cons, 1, Min(2, Len(cons)))
                  ELSE <<generic_con>>,
         rationale |-> Join(SubSeq(kept, 1, Min(2, Len(kept))))]

_podcast_pros_cons(candidate, dur) ==
    LET silence_ms == SilenceOrZero(candidate)
        quiet_before == _quietness_from_rms(candidate.rms_before)
        quiet_after == _quietness_from_rms(candidate.rms_after)
        pros == Qualifying(<<
            <<silence_ms >= 800,
              <<"Natural pause detected (~", ToString(silence_ms), "ms silence)">> >>,
            <<silence_ms < 800 /\ silence_ms >= 500,
              <<"Short pause detected (~", ToString(silence_ms), "ms silence)">> >>,
            <<candidate.boundary, <<"Likely sentence boundary or topic shift">> >>,
            <<AtLeastTenths(quiet_before, 7), <<"Low background energy before insert">> >>,
            <<AtLeastTenths(quiet_after, 7), <<"Low background energy after insert">> >> >>)
        cons == Qualifying(<<
            <<silence_ms < 600,
              <<"Short pause (only ~", ToString(silence_ms), "ms) could feel abrupt">> >>,
            <<~AtLeastTenths(quiet_after, 5),
              <<"Higher energy immediately after insertion">> >>,
            <<candidate.insertion_ms < 5000, <<"Close to the start of the audio">> >>,
            <<dur - candidate.insertion_ms < 5000, <<"Close to the end of the audio">> >> >>)
    IN  Finish(pros, cons, <<"Balanced pause with manageable energy shift">>,
               <<"Minor timing tradeoff compared to top slot">>)

_song_pros_cons(candidate, dur) ==
    LET valley == _quietness_from_rms(IF candidate.rms_center = None THEN 0
                                      ELSE candidate.rms_center)
        quiet_after == _quietness_from_rms(candidate.rms_after)
        pros == Qualifying(<<
            <<candidate.beat_aligned, <<"Beat-aligned insertion point">> >>,
            <<AtLeastTenths(valley, 7), <<"Low-energy valley (smooth entry)">> >>,
            <<AtLeastTenths(quiet_after, 6), <<"Stable energy after insert">> >> >>)
        cons == Qualifying(<<
            <<~candidate.beat_aligned, <<"Not perfectly beat-aligned">> >>,
            <<~AtLeastTenths(valley, 5), <<"Energy valley is modest">> >>,
            <<~AtLeastTenths(quiet_after, 5), <<"Higher energy change after insertion">> >>,
            <<candidate.insertion_ms < 5000 \/ dur - candidate.insertion_ms < 5000,
              <<"Close to the intro or outro">> >> >>)
    IN  Finish(pros, cons, <<"Solid rhythmic placement with manageable energy">>,
               <<"Less optimal alignment compared to top choice">>)

\* the recommendations list recommend_slots builds from the selected slots
Recommendations(m, sel, dur) ==
    [index \in 1..Len(sel) |->
        LET text == IF m = "song" THEN _song_pros_cons(sel[index], dur)
                    ELSE _podcast_pros_cons(sel[index], dur)
        IN  [slotId |-> index - 1,
             insertion_ms |-> sel[index].insertion_ms,
             seamlessness_percent |-> seamlessness_percent(sel[index].score),
             pros |-> text.pros, cons |-> text.cons, rationale |-> text.rationale]]

----------------------------------------------------------------------------
(* Specification SpecSlots: recommend_slots from the generated candidates   *)
(* to the returned recommendations, with the transcriber installed or not   *)
(* and answering, or raising, for each candidate                            *)

SlotProfiles(m) ==
    IF m = "song"
    THEN {Candidate(0, None, 9363, 12000, 9363, FALSE, FALSE, "fallback", 0),
          Candidate(0, None, 4681, 2000, 0, TRUE, FALSE, "beat", 0),
          Candidate(0, None, 0, 0, 4000, FALSE, FALSE, "energy", 0)}
    ELSE {Candidate(0, None, 9363, 12000, None, FALSE, FALSE, "fallback", 0),
          Candidate(0, 900, 0, 0, None, FALSE, FALSE, "silence", 0),
          Candidate(0, 2000, 4681, 2000, None, FALSE, FALSE, "silence", 0)}

SlotPositions(dur) == {0, 2000, dur \div 2}

SlotInputs(m, dur) ==
    UNION {{[i \in 1..Len(p) |-> [f[i] EXCEPT !.insertion_ms = p[i]]]
            : f \in [1..Len(p) -> SlotProfiles(m)]}
           : p \in {Ascending(T) : T \in {U \in SUBSET SlotPositions(dur) :
                                              Cardinality(U) <= MaxScored}}}

\* what the transcriber does with a window: it raises, or returns a text
TranscriberOutcomes ==
    {[kind |-> "raises"]} \cup
    {[kind |-> "text", text |-> t] :
        t \in {<<>>, <<" ", "o", "k", ".", " ">>, <<"a", "n", "d">>,
                <<"o", "k", ".", "\"", " ">>}}

InitSlots ==
    /\ mode \in {"podcast", "song"}
    /\ pc = IF mode = "song" THEN "score" ELSE "transcribe"
    /\ duration_ms \in RecDurations
    /\ level = 0
    /\ silence_ranges = <<>>
    /\ beat_times_ms = <<>>
    /\ minima_ms = <<>>
    /\ candidates_ms = <<>>
    /\ candidates \in SlotInputs(mode, duration_ms)
    /\ bump = 0
    /\ top_n = DefaultTopN
    /\ min_sep_ms = DefaultMinSep
    /\ selected = <<>>
    /\ whisper \in IF mode = "song" THEN {FALSE} ELSE BOOLEAN
    /\ transcripts \in IF whisper THEN [1..Len(candidates) -> TranscriberOutcomes]
                        ELSE {<<>>}
    /\ raised = ""
    /\ recommendations = <<>>
    /\ llm_enabled = FALSE
    /\ response = <<>>
    /\ result = <<>>
    /\ promo_ms = 0
    /\ insert_at_ms = 0
    /\ crossfade_ms = 0
    /\ duck_db = 0
    /\ splice = <<>>
    /\ buffer = <<>>
    /\ lufs = <<>>
    /\ pathway = ""
    /\ effects = <<>>
    /\ norm = <<>>
    /\ scores = <<>>
    /\ EditIdle

\* _apply_transcript_boundaries(audio, candidates); an exception of the
\* transcriber leaves it and recommend_slots
ApplyTranscriptBoundaries ==
    /\ pc = "transcribe"
    /\ IF TranscriptionRaises(whisper, candidates, duration_ms, transcripts)
       THEN /\ raised' = "transcriber"
            /\ pc' = "failed"
            /\ UNCHANGED candidates
       ELSE /\ candidates' = _apply_transcript_boundaries(whisper, candidates,
                                                          duration_ms, transcripts)
            /\ raised' = raised
            /\ pc' = "score"
    /\ UNCHANGED <<editVars, mode, duration_ms, level, silence_ranges, beat_times_ms,
                   minima_ms, candidates_ms, bump, top_n, min_sep_ms, selected,
                   whisper, transcripts, recommendations, llm_enabled, response,
                   result, promo_ms, insert_at_ms, crossfade_ms, duck_db, splice,
                   buffer, lufs, pathway, effects, norm, scores>>

\* the loop over selected and the payload recommend_slots returns
BuildRecommendations ==
    /\ pc = "done"
    /\ recommendations' = Recommendations(mode, selected, duration_ms)
    /\ pc' = "returned"
    /\ UNCHANGED <<editVars, recVars, whisper, transcripts, raised, llm_enabled, response,
                   result, promo_ms, insert_at_ms, crossfade_ms, duck_db, splice,
                   buffer, lufs, pathway, effects, norm, scores>>

NextSlots ==
    \/ ApplyTranscriptBoundaries
    \/ ScoreCandidates
    \/ BoostAndCap
    \/ SelectTop
    \/ BuildRecommendations

SpecSlots == InitSlots /\ [][NextSlots]_vars

----------------------------------------------------------------------------
(* Specification SpecScenario: recommend_slots in spoken-word mode on a      *)
(* 120000 ms recording with one 900 ms silence centred at 60000 ms.  The     *)
(* recording's loudness is not uniform here: the windows around the silence, *)
(* around one of the fallback points and around the other fallback points    *)
(* each have their own level; the transcriber, when it is installed, finds a *)
(* sentence end before a candidate or not.                                   *)

ScenarioDuration == 120000

ScenarioSilence == <<<<59550, 60450>>>>

\* the candidates of _podcast_candidates, before their windows are measured
ScenarioGenerated == _podcast_candidates(ScenarioSilence, ScenarioDuration, 0)

WithWindows(c, pair, snippet) ==
    MarkBoundary([c EXCEPT !.rms_before = pair[1], !.rms_after = pair[2]], snippet)

ScenarioSnippets == {<<>>, <<"o", "k", ".">>}

\* <<rms_before, rms_after>> of a window as segment.rms: quiet speech, moderate,
\* loud.  No window is silent on both sides: only one silence was detected.
ScenarioLevels == {<<2000, 2000>>, <<4681, 2000>>, <<9363, 12000>>}

\* a snippet is taken for the candidates _apply_transcript_boundaries ranks first
SnippetsAt(k) ==
    IF k \in Range(Transcribed(ScenarioGenerated)) THEN ScenarioSnippets ELSE {<<>>}

ScenarioInputs ==
    UNION {{[i \in 1..Len(ScenarioGenerated) |->
                IF i = 1 THEN WithWindows(ScenarioGenerated[i], sp, st)
                ELSE IF i = k THEN WithWindows(ScenarioGenerated[i], kp, kt)
                ELSE WithWindows(ScenarioGenerated[i], base, <<>>)] :
             sp \in ScenarioLevels, st \in ScenarioSnippets, base \in ScenarioLevels,
             kp \in ScenarioLevels, kt \in SnippetsAt(k)}
           : k \in 2..Len(ScenarioGenerated)}

InitScenario ==
    /\ pc = "score"
    /\ mode = "podcast"
    /\ duration_ms = ScenarioDuration
    /\ level = 0
    /\ silence_ranges = ScenarioSilence
    /\ beat_times_ms = <<>>
    /\ minima_ms = <<>>
    /\ candidates_ms = <<>>
    /\ candidates \in ScenarioInputs
    /\ bump = 0
    /\ top_n = DefaultTopN
    /\ min_sep_ms = DefaultMinSep
    /\ selected = <<>>
    /\ AuxIdle

NextScenario == ScoreCandidates \/ BoostAndCap \/ SelectTop

SpecScenario == InitScenario /\ [][NextScenario]_vars

(* Claims about the scenario, checked under SpecScenario *)

SilenceDerived(c) == c.silence_ms # None /\ c.silence_ms > 0

NotQuieterThan(f, c) == f.rms_before >= c.rms_before /\ f.rms_after >= c.rms_after

\* the values the monotonicity of _score_podcast is checked on
SilenceSamples == {None, 0, 500, 900, 1499, 1500, 2000}
RmsSamples == {0, 2000, 4681, 9362, 9363, 12000, SampleMax}

\* _score_podcast does not fall when silence_ms grows and does not rise when
\* rms_before or rms_after grows, everything else kept
ScorePodcastMonotone(c, dur) ==
    /\ \A s1, s2 \in SilenceSamples :
          SilenceOrZero([silence_ms |-> s1]) <= SilenceOrZero([silence_ms |-> s2]) =>
              _score_podcast([c EXCEPT !.silence_ms = s1], dur)
                  <= _score_podcast([c EXCEPT !.silence_ms = s2], dur)
    /\ \A r1, r2 \in RmsSamples :
          r1 <= r2 =>
              /\ _score_podcast([c EXCEPT !.rms_before = r1], dur)
                    >= _score_podcast([c EXCEPT !.rms_before = r2], dur)
              /\ _score_podcast([c EXCEPT !.rms_after = r1], dur)
                    >= _score_podcast([c EXCEPT !.rms_after = r2], dur)

ScoredAsComputed ==
    \A i \in 1..Len(candidates) :
        candidates[i].score = _score_podcast(candidates[i], duration_ms)

BeatsLouderFallbacks ==
    \A i, j \in 1..Len(candidates) :
        (SilenceDerived(candidates[i]) /\ ~SilenceDerived(candidates[j])
            /\ NotQuieterThan(candidates[j], candidates[i]))
        => candidates[i].score > candidates[j].score

\* C22 (as stated): in the scenario the silence-derived candidate outscores
\* every fallback candidate whose rms_before and rms_after are not lower than
\* its own, and it is the first candidate _select_top returns; _score_podcast
\* is non-decreasing in silence_ms and non-increasing in rms_before and
\* rms_after.
C22_SilenceFirst ==
    /\ pc = "boost" =>
          /\ ScoredAsComputed
          /\ BeatsLouderFallbacks
          /\ \A i \in 1..Len(candidates) :
                ScorePodcastMonotone(candidates[i], duration_ms)
    /\ pc = "done" => (selected # <<>> /\ SilenceDerived(selected[1]))

\* C22 (amended): as above, but the silence-derived candidate is the first
\* one returned when no fallback candidate has a lower rms_before or
\* rms_after than it has.
C22_SilenceFirstUnlessQuieterFallback ==
    /\ pc = "boost" =>
          /\ ScoredAsComputed
          /\ BeatsLouderFallbacks
          /\ \A i \in 1..Len(candidates) :
                ScorePodcastMonotone(candidates[i], duration_ms)
    /\ (pc = "done"
          /\ \A i, j \in 1..Len(candidates) :
                (SilenceDerived(candidates[i]) /\ ~SilenceDerived(candidates[j]))
                    => NotQuieterThan(candidates[j], candidates[i]))
        => (selected # <<>> /\ SilenceDerived(selected[1]))

\* the silence-derived candidate wins against louder fallback points, one of
\* which ends a sentence
C22_Witness ==
    /\ pc = "done"
    /\ Len(candidates) = 12
    /\ SilenceDerived(candidates[1]) /\ candidates[1].insertion_ms = 60000
    /\ candidates[1].silence_ms = 900 /\ ~candidates[1].boundary
    /\ candidates[1].rms_before > 0
    /\ \A j \in 2..12 : NotQuieterThan(candidates[j], candidates[1])
    /\ \E j \in 2..12 : candidates[j].boundary
    /\ selected[1].insertion_ms = 60000

----------------------------------------------------------------------------
(* Claims about recommend_slots, checked under SpecSlots *)

\* C16: when transcription is unavailable, or the transcriber raises on one
\* candidate's window, that candidate's sentence-boundary flag stays false,
\* the other candidates are still processed and scored, and recommend_slots
\* returns its recommendations: no exception leaves it.
C16_TranscriptionNeverFails ==
    /\ raised = ""
    /\ pc # "failed"
    /\ (mode = "podcast" /\ pc # "transcribe") =>
          \A i \in 1..Len(candidates) :
              (~whisper \/ transcripts[i].kind = "raises") => ~candidates[i].boundary

\* C17: in both modes every recommendation carries at least two pros, at
\* least one con and a non-empty rationale.
C17_TwoProsOneCon ==
    pc = "returned" =>
        \A i \in 1..Len(recommendations) :
            /\ Len(recommendations[i].pros) >= 2
            /\ Len(recommendations[i].cons) >= 1
            /\ recommendations[i].rationale # <<>>

\* the text ends, before trailing whitespace, with a terminal mark that one
\* closing quote or bracket may follow
SentenceEnd(text) ==
    LET t == rstrip(text)
        n == Len(t)
    IN  \/ n >= 1 /\ t[n] \in TerminalChars
        \/ n >= 2 /\ t[n] \in ClosingChars /\ t[n - 1] \in TerminalChars

\* C25: a spoken-word candidate whose window was transcribed is marked as a
\* sentence boundary exactly when its transcript, ignoring trailing
\* whitespace, ends with '.', '!' or '?' optionally followed by one closing
\* quote or bracket, so a transcript ending in ." is marked; _ends_sentence of
\* the alternate scoring path decides in the same way.
C25_BoundaryAfterClosingQuote ==
    (mode = "podcast" /\ whisper /\ pc = "score") =>
        \A i \in Range(Transcribed(candidates)) :
            LET snippet == SnippetOf(candidates, duration_ms, transcripts, i).text
            IN  /\ snippet # <<>> => (candidates[i].boundary <=> SentenceEnd(snippet))
                /\ _ends_sentence(snippet) <=> SentenceEnd(snippet)

----------------------------------------------------------------------------
(* The stitching service, services/audio_edit.py.  Times are integer ms     *)
(* (insert_time and the probed duration are seconds in the code; 0.1 s is   *)
(* 100 ms).  A str path is the sequence of its "/"-separated pieces, so     *)
(* "./outputs//final.mp3" is <<".", "outputs", "", "final.mp3">>.  An audio   *)
(* content is the sequence of the stretches it is made of, each a stretch   *)
(* [from, to) of the podcast or of the ad; empty stretches are not kept.    *)
(* ffprobe and ffmpeg succeed on audio files and fail on anything else.     *)

\* str(Path(text)): the pieces "" and "." are dropped, the root is kept
Path(text) ==
    LET Kept(piece) == piece \notin {"", "."}
        parts == SelectSeq(text, Kept)
        rooted == Len(text) > 1 /\ text[1] = ""
    IN  IF rooted THEN <<"">> \o parts
        ELSE IF parts = <<>> THEN <<".">> ELSE parts

Stretch(src, from, to) ==
    IF to <= from THEN <<>> ELSE <<[src |-> src, from |-> from, to |-> to]>>

RECURSIVE AudioLen(_)
AudioLen(audio) ==
    IF audio = <<>> THEN 0
    ELSE Head(audio).to - Head(audio).from + AudioLen(Tail(audio))

\* ffmpeg -i input -t t: the first t ms of the input
RECURSIVE UpTo(_, _)
UpTo(audio, t) ==
    IF audio = <<>> \/ t <= 0 THEN <<>>
    ELSE LET h == Head(audio)
             n == h.to - h.from
         IN  IF t >= n THEN <<h>> \o UpTo(Tail(audio), t - n)
             ELSE <<[h EXCEPT !.to = h.from + t]>>

\* ffmpeg -i input -ss t: the input from t ms on
RECURSIVE From(_, _)
From(audio, t) ==
    IF audio = <<>> THEN <<>>
    ELSE IF t <= 0 THEN audio
    ELSE LET h == Head(audio)
             n == h.to - h.from
         IN  IF t >= n THEN From(Tail(audio), t - n)
             ELSE <<[h EXCEPT !.from = h.from + t]>> \o Tail(audio)

\* what is at a path: a regular file of size 0, a regular file that is not
\* audio, or an audio file; a path that is no regular file is not in the map
EmptyFile == [kind |-> "empty", audio |-> <<>>]
DataFile == [kind |-> "data", audio |-> <<>>]
AudioFile(audio) == [kind |-> "audio", audio |-> audio]

is_file(fs, path) == path \in DOMAIN fs

st_size_positive(fs, path) == fs[path].kind # "empty"

Written(fs, path, file) ==
    [q \in DOMAIN fs \cup {path} |-> IF q = path THEN file ELSE fs[q]]

\* the files of tempfile.TemporaryDirectory(prefix="audio_edit_")
TmpFile(name) == <<"", "tmp", "audio_edit_", name>>

TmpFiles == {TmpFile("left.wav"), TmpFile("right.wav"), TmpFile("ad.wav")}

\* leaving the with block removes the directory
CleanedUp(fs) == [q \in DOMAIN fs \ TmpFiles |-> fs[q]]

\* get_duration_seconds: ffprobe prints the duration of an audio file
get_duration_seconds(fs, path) ==
    IF fs[path].kind = "audio"
    THEN [raises |-> FALSE, value |-> AudioLen(fs[path].audio)]
    ELSE [raises |-> TRUE, value |-> 0]

\* faulty variant: an insertion point near the end is not moved to the end
SnapAndClamp_NoSnap(time, dur) ==
    Max(0, Min(time, dur))

\* if insert_time >= duration - 0.1: insert_time = duration
\* insert_time = max(0.0, min(insert_time, duration))
SnapAndClamp(time, dur) ==
    Max(0, Min(IF time >= dur - 100 THEN dur ELSE time, dur))

----------------------------------------------------------------------------
(* Specification SpecEdit: one call of services.audio_edit.insert_ad *)

PodcastPath == <<"data", "podcast_sample.mp3">>
AdPath == <<"data", "ad_sample.mp3">>

OutputPaths ==
    {<<"outputs", "final.mp3">>, <<".", "outputs", "final.mp3">>,
     <<"", "srv", "", "final.mp3">>, PodcastPath}

HostFiles ==
    {<<>>, <<EmptyFile>>, <<DataFile>>} \cup
    {<<AudioFile(Stretch("podcast", 0, d))>> : d \in {50, 3000}}

AdFiles ==
    {<<>>, <<EmptyFile>>, <<DataFile>>, <<AudioFile(Stretch("ad", 0, 1500))>>}

InsertTimes == {-1, 0, 1000, 2899, 2900, 3000, 5000}

\* the file system with the two inputs, each there or not
FileSystem(host, ad) ==
    [q \in (IF host = <<>> THEN {} ELSE {Path(PodcastPath)})
             \cup (IF ad = <<>> THEN {} ELSE {Path(AdPath)}) |->
        IF q = Path(PodcastPath) THEN host[1] ELSE ad[1]]

InitEdit ==
    /\ pc = "validate"
    /\ mode = "podcast"
    /\ duration_ms = 0
    /\ level = 0
    /\ silence_ranges = <<>>
    /\ beat_times_ms = <<>>
    /\ minima_ms = <<>>
    /\ candidates_ms = <<>>
    /\ candidates = <<>>
    /\ bump = 0
    /\ top_n = DefaultTopN
    /\ min_sep_ms = DefaultMinSep
    /\ selected = <<>>
    /\ whisper = FALSE
    /\ transcripts = <<>>
    /\ raised = ""
    /\ recommendations = <<>>
    /\ llm_enabled = FALSE
    /\ response = <<>>
    /\ result = <<>>
    /\ promo_ms = 0
    /\ insert_at_ms = 0
    /\ crossfade_ms = 0
    /\ duck_db = 0
    /\ splice = <<>>
    /\ buffer = <<>>
    /\ lufs = <<>>
    /\ pathway = ""
    /\ effects = <<>>
    /\ norm = <<>>
    /\ scores = <<>>
    /\ \E host \in HostFiles, ad \in AdFiles : files = FileSystem(host, ad)
    /\ \E t \in InsertTimes, out \in OutputPaths :
          /\ call = [podcast_path |-> PodcastPath, ad_path |-> AdPath,
                     insert_time |-> t, output_path |-> out]
          /\ insert_time = t
    /\ duration = 0

editFixed == <<recVars, whisper, transcripts, recommendations, llm_enabled,
               response, promo_ms, insert_at_ms, crossfade_ms, duck_db, splice,
               buffer, lufs, pathway, norm, scores, call>>

\* the checks of insert_ad before any command runs
ValidateArguments ==
    /\ pc = "validate"
    /\ LET podcast_file == Path(call.podcast_path)
           ad_file == Path(call.ad_path)
       IN  IF insert_time < 0
           THEN raised' = "insert_time must be >= 0" /\ pc' = "raised"
           ELSE IF ~is_file(files, podcast_file)
           THEN raised' = "Podcast file not found" /\ pc' = "raised"
           ELSE IF ~is_file(files, ad_file)
           THEN raised' = "Ad file not found" /\ pc' = "raised"
           ELSE IF ~st_size_positive(files, ad_file)
           THEN raised' = "Ad file is empty" /\ pc' = "raised"
           ELSE raised' = raised /\ pc' = "probe"
    /\ UNCHANGED <<editFixed, files, insert_time, duration, effects, result>>

\* duration = get_duration_seconds(...), then the snap and the clamp
ProbeDuration ==
    /\ pc = "probe"
    /\ effects' = Append(effects, "ffprobe")
    /\ LET probed == get_duration_seconds(files, Path(call.podcast_path))
       IN  IF probed.raises
           THEN /\ raised' = "ffprobe failed" /\ pc' = "raised"
                /\ UNCHANGED <<duration, insert_time>>
           ELSE /\ duration' = probed.value
                /\ insert_time' = SnapAndClamp(insert_time, probed.value)
                /\ raised' = raised /\ pc' = "left"
    /\ UNCHANGED <<editFixed, files, result>>

\* ffmpeg -y -i podcast -t insert_time ... left.wav
CutLeft ==
    /\ pc = "left"
    /\ effects' = Append(effects, "ffmpeg_left")
    /\ files' = Written(files, TmpFile("left.wav"),
                        AudioFile(UpTo(files[Path(call.podcast_path)].audio, insert_time)))
    /\ pc' = "right"
    /\ UNCHANGED <<editFixed, insert_time, duration, raised, result>>

\* ffmpeg -y -i podcast -ss insert_time ... right.wav, or an empty right.wav
CutRight ==
    /\ pc = "right"
    /\ IF insert_time < duration
       THEN /\ effects' = Append(effects, "ffmpeg_right")
            /\ files' = Written(files, TmpFile("right.wav"),
                            AudioFile(From(files[Path(call.podcast_path)].audio, insert_time)))
       ELSE /\ effects' = effects
            /\ files' = Written(files, TmpFile("right.wav"), EmptyFile)
    /\ pc' = "ad"
    /\ UNCHANGED <<editFixed, insert_time, duration, raised, result>>

\* ffmpeg -y -i ad ... ad.wav
ConvertAd ==
    /\ pc = "ad"
    /\ effects' = Append(effects, "ffmpeg_ad")
    /\ IF files[Path(call.ad_path)].kind = "audio"
       THEN /\ files' = Written(files, TmpFile("ad.wav"),
                                AudioFile(files[Path(call.ad_path)].audio))
            /\ raised' = raised /\ pc' = "concat"
       ELSE /\ files' = CleanedUp(files)
            /\ raised' = "Command failed" /\ pc' = "raised"
    /\ UNCHANGED <<editFixed, insert_time, duration, result>>

\* the concat list, ffmpeg -f concat ... output_file, and the return
ConcatAndReturn ==
    /\ pc = "concat"
    /\ effects' = Append(effects, "ffmpeg_concat")
    /\ LET output_file == Path(call.output_path)
           concat_lines ==
               <<TmpFile("left.wav"), TmpFile("ad.wav")>> \o
               (IF st_size_positive(files, TmpFile("right.wav"))
                THEN <<TmpFile("right.wav")>> ELSE <<>>)
           joined == IF Len(concat_lines) = 3
                     THEN files[concat_lines[1]].audio \o files[concat_lines[2]].audio
                            \o files[concat_lines[3]].audio
                     ELSE files[concat_lines[1]].audio \o files[concat_lines[2]].audio
       IN  /\ files' = Written(CleanedUp(files), output_file, AudioFile(joined))
           /\ result' = output_file
    /\ pc' = "returned"
    /\ UNCHANGED <<editFixed, insert_time, duration, raised>>

NextEdit ==
    \/ ValidateArguments
    \/ ProbeDuration
    \/ CutLeft
    \/ CutRight
    \/ ConvertAd
    \/ ConcatAndReturn

SpecEdit == InitEdit /\ [][NextEdit]_vars

(* Claims about insert_ad, checked under SpecEdit *)

\* t: insert_time clamped to [0, duration], and the duration itself from
\* duration - 0.1 s on
InsertionPoint ==
    IF call.insert_time >= duration - 100 THEN duration
    ELSE Max(0, Min(call.insert_time, duration))

\* host[0:t] + ad + host[t:]
Stitched ==
    Stretch("podcast", 0, InsertionPoint)
      \o files[Path(call.ad_path)].audio
      \o Stretch("podcast", InsertionPoint, duration)

RejectedArguments ==
    \/ call.insert_time < 0
    \/ ~is_file(files, Path(call.podcast_path))
    \/ ~is_file(files, Path(call.ad_path))
    \/ files[Path(call.ad_path)].kind = "empty"

\* nothing was written to output_path: nothing is there, or the podcast that
\* was there before the call
OutputUntouched ==
    LET output_file == Path(call.output_path)
    IN  \/ ~is_file(files, output_file)
        \/ output_file = Path(call.podcast_path) /\ <<files[output_file]>> \in HostFiles

----------------------------------------------------------------------------
(* Claims about the windows cut around an insertion point, checked under Spec *)

\* the windows _podcast_candidates and _song_candidates measure around a point
MeasuredWindows(m, insert_ms) ==
    {<<insert_ms - 800, insert_ms>>, <<insert_ms, insert_ms + 800>>}
      \cup (IF m = "song" THEN {<<insert_ms - 200, insert_ms + 200>>} ELSE {})

WithinRecording(range, dur) ==
    0 <= range[1] /\ range[1] <= range[2] /\ range[2] <= dur

\* C26: for every recording and every generated insertion point, the range
\* [start, end] that _rms_window computes for each window it measures, and the
\* range context_window computes around the point, satisfy
\* 0 <= start <= end <= duration before the recording is sliced with it.
C26_WindowsClamped ==
    Generated =>
        \A i \in 1..Len(candidates) :
            /\ \A w \in MeasuredWindows(mode, candidates[i].insertion_ms) :
                  WithinRecording(_rms_window_range(w[1], w[2]), duration_ms)
            /\ WithinRecording(context_window_range(duration_ms,
                                   candidates[i].insertion_ms, ContextWindowMs),
                               duration_ms)

====
